---- MODULE Spec2Model ----
(***************************************************************************)
(* Lumina Studio: colour-calibration and mesh-generation pipeline.         *)
(*                                                                         *)
(* One module, several specifications, one per component:                  *)
(*   SpecRect   HighFidelityMesher._greedy_rect_merge                      *)
(*   SpecCodec  the index -> 5-digit base-4 stack loop                     *)
(*   SpecBoard  generate_calibration_board, run_extraction and the pairing *)
(*              of LUT entries with stacks in load_calibrated_lut          *)
(*   SpecLut    load_calibrated_lut and the colour match of                *)
(*              convert_image_to_3d                                        *)
(*   SpecConv   convert_image_to_3d from the loaded LUT to the returned    *)
(*              result                                                     *)
(*   SpecPkg    safe_fix_3mf_names, run repeatedly on one package          *)
(*   SpecExt    the extractor tab: corner collection and run_extraction    *)
(*   SpecFix    probe_lut_cell and manual_fix_cell on the LUT file         *)
(*   SpecLoop   create_keychain_loop: side walls and ring stitching        *)
(*   SpecVec    create_vector_mesh on one layer group: cleanup, contours,  *)
(*              buffered polygons, union and hole subtraction              *)
(*   SpecGrp    the vertical layer compression of create_vector_mesh and   *)
(*              HighFidelityMesher._merge_layers_with_dilation             *)
(*   SpecRing   connect_rings on two rings of any size                     *)
(*   SpecMode   the resolution of the modelling mode to a mesher           *)
(*   SpecPrv    create_preview_mesh: the size policy of the 3D preview     *)
(*   SpecAtt    the attach point of the keychain loop and the scale of the *)
(*              model meshes                                               *)
(* Each specification drives its own group of variables and leaves the     *)
(* other groups idle.                                                      *)
(***************************************************************************)
EXTENDS Integers, Sequences, FiniteSets, TLC

VARIABLES
    \* ---- greedy rectangle merge (core/mesh_generators.py) ----
    mask,        \* 2D boolean array, mask[y][x], 0-based
    processed,   \* same shape, cells already covered
    rectangles,  \* sequence of <<x0, y0, x1, y1>>
    y, x,        \* scan position
    x_end, y_end,
    rpc,         \* position in _greedy_rect_merge
    \* ---- stack codec loop (core/calibration.py) ----
    ci,          \* loop variable i of "for i in range(1024)"
    temp,        \* running quotient
    digits,      \* digits appended so far, least significant first
    stack,       \* digits[::-1]
    cpc,         \* position in the loop body
    \* ---- calibration board, extraction, LUT pairing ----
    color_mode,       \* the colour-mode string
    backing_color,    \* the backing colour name
    block_size_mm,    \* block size, in hundredths of a millimetre
    gap_mm,           \* gap, in hundredths of a millimetre
    pixels_per_block, pixels_gap,
    voxel_w, voxel_h, \* XY shape of full_matrix
    full_matrix,      \* physical grid cell <<row, col>> -> materials of the
                      \* colour layers z = 0..4 of the cell's block
    extracted,        \* LUT cell <<r, c>> -> what the sampler averaged there
    lut_pairs,        \* flattened index -> <<measured entry, stack>>
    bpc,              \* position in the board / extraction / loading flow
    \* ---- LUT loading and colour matching (core/converter.py) ----
    lut_grid,         \* the LUT file: cell <<r, c>> -> <<R, G, B>>
    lut_rgb,          \* valid_rgb: measured colours of the surviving entries
    ref_stacks,       \* valid_stacks: their stacks, same positions
    tree,             \* the KD-tree built over lut_rgb
    flat_rgb,         \* the query pixels
    matched_rgb,      \* per pixel, the matched LUT colour
    best_stacks,      \* per pixel, the matched stack
    lpc,              \* position in the conversion flow
    \* ---- convert_image_to_3d after the colour match (core/converter.py) ----
    alpha_arr,        \* pixel -> alpha of the resized image
    rgb_arr,          \* pixel -> colour in bg_reference
    pixel_stacks,     \* best_stacks: pixel -> stack
    conv_color_mode,  \* color_mode of the conversion
    auto_bg, bg_tol,
    structure_mode,
    spacer_thick,     \* in hundredths of a millimetre
    mesher,           \* the mesh_creator in use
    add_loop,
    lut_file,         \* the LUT file handed in
    mask_transparent, \* pixel -> BOOLEAN
    loop_info,        \* "none", or "loop" when a loop is planned
    voxel_matrix,     \* full_matrix of the conversion: z -> pixel -> material
    scene,            \* the parts added to the scene, in order
    loop_added,
    package,          \* the 3MF file at out_path
    fix_outcome,      \* what happened inside safe_fix_3mf_names
    conv_result,      \* what the conversion returned
    vpc,              \* position in convert_image_to_3d
    \* ---- safe_fix_3mf_names (utils/helpers.py) ----
    pkg_docs,         \* the model document of the package before the first
                      \* run and after each run
    pkg_names,        \* slot_names
    \* ---- the extractor tab (ui/callbacks.py, core/extractor.py) ----
    ext_state_img,    \* the uploaded photograph, or NoImage
    ext_state_pts,    \* the corner points clicked so far
    ext_curr_coord,   \* the LUT cell selected by the last probe, or NoCoord
    lut_store,        \* the file at LUT_FILE_PATH
    ext_base,         \* history: the grid as the last extraction wrote it
    fix_log,          \* history: the corrections applied since then
    ext_log,          \* the message of the last run_extraction or
                      \* manual_fix_cell
    \* ---- create_keychain_loop (core/converter.py) ----
    n_arc,            \* points of the half-circle and of the hole ring
    half_w, rect_height, hole_radius,
    faces,            \* the faces list
    oi, hi,           \* positions on the two rings in connect_rings
    ring_path,        \* history: the ring advanced at each iteration of the
                      \* bottom cap
    kpc,              \* position in create_keychain_loop
    \* ---- create_vector_mesh (core/converter.py), one layer group ----
    layer_mask,       \* the group's mask, mask[y][x]
    synthetic,        \* history: the sides of the square and of its hole
    mask_uint8,       \* the mask after the morphological cleanup
    polygons,         \* the list of (poly, is_hole)
    merged_area,      \* the area of the final polygons
    mpc,              \* position in create_vector_mesh
    \* ---- vertical layer compression (both meshers) ----
    grp_matrix,       \* voxel_matrix[z][y][x], 0-based, one row per layer
    grp_mat_id,       \* the material whose layers are grouped
    grp_dilate,       \* TRUE in _merge_layers_with_dilation
    layer_groups,     \* the list of (start_z, end_z, mask)
    prev_mask,        \* the mask of the open group, NoMask for None
    start_z,          \* first layer of the open group
    gz,               \* the loop variable z
    gpc,              \* position in the grouping loop
    \* ---- connect_rings (core/converter.py), on rings of any size ----
    n_o, n_h,         \* len(outer_indices), len(hole_indices)
    ring_is_top,      \* the is_top argument
    ring_oi, ring_hi, \* oi, hi
    ring_step,        \* iterations of the loop done
    ring_faces,       \* ring_faces
    ring_trace,       \* history: the ring advanced at each iteration
    qpc,              \* position in connect_rings
    \* ---- modelling-mode resolution (converter.py, mesh_generators.py) ----
    modeling_mode,       \* str(modeling_mode).lower(), as the set of the
                         \* markers it contains
    woodblock_available, \* WOODBLOCK_AVAILABLE
    use_vector_mode,     \* use_vector_mode
    use_woodblock_mode,  \* use_woodblock_mode
    mesh_creator,        \* mesh_creator
    ran_mesher,          \* the mesher that built the mesh
    factory_mesher,      \* the class get_mesher returned
    mdpc,                \* position in convert_image_to_3d
    \* ---- preview size policy (core/converter.py) ----
    prev_width,       \* target_w
    prev_height,      \* target_h
    prev_solid,       \* mask_solid: "none", "sparse" or "all" pixels solid
    exported,         \* the pixel grid of the exported 3MF, NoGrid before
    preview_mesh,     \* the preview mesh, NoPreview for None
    preview_note,     \* the preview status added to the message
    ppc,              \* position in convert_image_to_3d
    \* ---- keychain loop attach point (core/converter.py) ----
    high_res,          \* use_vector_mode or use_woodblock_mode
    mask_solid,        \* mask_solid[row][col], 0-based
    loop_pos,          \* the clicked (x, y), NoPos for None
    pixel_to_mm_scale, \* in hundredths of a millimetre per pixel
    attach_col,        \* attach_col
    top_row,           \* top_row
    attach_info,       \* loop_info, NoInfo for None
    transform_xy,      \* transform[0, 0] = transform[1, 1]
    loop_origin,       \* where create_keychain_loop put the loop
    apc                \* position in convert_image_to_3d

rectVars  == <<mask, processed, rectangles, y, x, x_end, y_end, rpc>>
codecVars == <<ci, temp, digits, stack, cpc>>
boardVars == <<color_mode, backing_color, block_size_mm, gap_mm,
               pixels_per_block, pixels_gap, voxel_w, voxel_h, full_matrix,
               extracted, lut_pairs, bpc>>
lutVars == <<lut_grid, lut_rgb, ref_stacks, tree, flat_rgb, matched_rgb,
             best_stacks, lpc>>
convVars == <<alpha_arr, rgb_arr, pixel_stacks, conv_color_mode, auto_bg,
              bg_tol, structure_mode, spacer_thick, mesher, add_loop, lut_file,
              mask_transparent, loop_info, voxel_matrix, scene, loop_added,
              package, fix_outcome, conv_result, vpc>>
pkgVars == <<pkg_docs, pkg_names>>
extVars == <<ext_state_img, ext_state_pts, ext_curr_coord, lut_store,
             ext_base, fix_log, ext_log>>
loopVars == <<n_arc, half_w, rect_height, hole_radius, faces, oi, hi,
              ring_path, kpc>>
vecVars == <<layer_mask, synthetic, mask_uint8, polygons, merged_area, mpc>>
grpVars == <<grp_matrix, grp_mat_id, grp_dilate, layer_groups, prev_mask, start_z, gz, gpc>>
ringVars == <<n_o, n_h, ring_is_top, ring_oi, ring_hi, ring_step, ring_faces, ring_trace, qpc>>
modeVars == <<modeling_mode, woodblock_available, use_vector_mode, use_woodblock_mode, mesh_creator, ran_mesher, factory_mesher, mdpc>>
prvVars == <<prev_width, prev_height, prev_solid, exported, preview_mesh, preview_note, ppc>>
attVars == <<high_res, mask_solid, loop_pos, pixel_to_mm_scale, attach_col, top_row, attach_info, transform_xy, loop_origin, apc>>
vars == <<rectVars, codecVars, boardVars, lutVars, convVars, pkgVars, extVars, loopVars, vecVars, grpVars, ringVars, modeVars, prvVars, attVars>>

\* what each component's actions leave alone
notRect ==
    <<codecVars, boardVars, lutVars, convVars, pkgVars, extVars,
      loopVars, vecVars, grpVars, ringVars, modeVars, prvVars, attVars>>
notCodec ==
    <<rectVars, boardVars, lutVars, convVars, pkgVars, extVars,
      loopVars, vecVars, grpVars, ringVars, modeVars, prvVars, attVars>>
notBoard ==
    <<rectVars, codecVars, lutVars, convVars, pkgVars, extVars,
      loopVars, vecVars, grpVars, ringVars, modeVars, prvVars, attVars>>
notLut ==
    <<rectVars, codecVars, boardVars, convVars, pkgVars, extVars,
      loopVars, vecVars, grpVars, ringVars, modeVars, prvVars, attVars>>
notConv ==
    <<rectVars, codecVars, boardVars, lutVars, pkgVars, extVars,
      loopVars, vecVars, grpVars, ringVars, modeVars, prvVars, attVars>>
notPkg ==
    <<rectVars, codecVars, boardVars, lutVars, convVars, extVars,
      loopVars, vecVars, grpVars, ringVars, modeVars, prvVars, attVars>>
notExt ==
    <<rectVars, codecVars, boardVars, lutVars, convVars, pkgVars,
      loopVars, vecVars, grpVars, ringVars, modeVars, prvVars, attVars>>
notLoop ==
    <<rectVars, codecVars, boardVars, lutVars, convVars, pkgVars,
      extVars, vecVars, grpVars, ringVars, modeVars, prvVars, attVars>>
notVec ==
    <<rectVars, codecVars, boardVars, lutVars, convVars, pkgVars,
      extVars, loopVars, grpVars, ringVars, modeVars, prvVars, attVars>>
notGrp ==
    <<rectVars, codecVars, boardVars, lutVars, convVars, pkgVars,
      extVars, loopVars, vecVars, ringVars, modeVars, prvVars, attVars>>
notRing ==
    <<rectVars, codecVars, boardVars, lutVars, convVars, pkgVars,
      extVars, loopVars, vecVars, grpVars, modeVars, prvVars, attVars>>
notMode ==
    <<rectVars, codecVars, boardVars, lutVars, convVars, pkgVars,
      extVars, loopVars, vecVars, grpVars, ringVars, prvVars, attVars>>
notPrv ==
    <<rectVars, codecVars, boardVars, lutVars, convVars, pkgVars,
      extVars, loopVars, vecVars, grpVars, ringVars, modeVars, attVars>>
notAtt ==
    <<rectVars, codecVars, boardVars, lutVars, convVars, pkgVars,
      extVars, loopVars, vecVars, grpVars, ringVars, modeVars, prvVars>>

(***************************************************************************)
(* Bounds of the model and constants of the program.                       *)
(***************************************************************************)
MaxMaskH == 3
MaxMaskW == 3
SolidSide == 10
ImgPixels == 2
ConvPixels == 2
MaxObjects == 3
MaxObjectId == 4
MaxFixRuns == 2
MaxFixes == 2
MaxArc == 3
MaxSide == 10
MaxLayers == 3
LayerW == 3
MaxRing == 3
AttachRows == 2
AttachCols == 3

NumStacks == 1024
StackLen == 5
Base == 4

\* PrinterConfig and the extractor's constants (config.py)
ColorLayers == 5
NozzleWidth == 42          \* 0.42 mm, in hundredths of a millimetre
PhysicalGridSize == 34
DataGridSize == 32
DstSize == 1000
\* the calibration grid (calibration.py)
GridDim == 32
Padding == 1
\* the loader's filter (converter.py)
BlueDist == 60
BlueMaterial == 3
\* PrinterConfig.LAYER_HEIGHT, in hundredths of a millimetre
LayerHeight == 8
\* alpha below which a pixel is transparent (converter.py)
AlphaCut == 10

(***************************************************************************)
(* Idle values of each group.                                              *)
(***************************************************************************)
IdleRect ==
    /\ mask = <<>> /\ processed = <<>> /\ rectangles = <<>>
    /\ y = 0 /\ x = 0 /\ x_end = 0 /\ y_end = 0 /\ rpc = "idle"

IdleCodec ==
    /\ ci = 0 /\ temp = 0 /\ digits = <<>> /\ stack = <<>> /\ cpc = "idle"

IdleLut ==
    /\ lut_grid = <<>> /\ lut_rgb = <<>> /\ ref_stacks = <<>> /\ tree = "none"
    /\ flat_rgb = <<>> /\ matched_rgb = <<>> /\ best_stacks = <<>>
    /\ lpc = "idle"

IdleConv ==
    /\ alpha_arr = <<>> /\ rgb_arr = <<>> /\ pixel_stacks = <<>>
    /\ conv_color_mode = "" /\ auto_bg = FALSE /\ bg_tol = 0
    /\ structure_mode = "" /\ spacer_thick = 0 /\ mesher = ""
    /\ add_loop = FALSE /\ lut_file = <<>> /\ mask_transparent = <<>>
    /\ loop_info = "none" /\ voxel_matrix = <<>> /\ scene = <<>>
    /\ loop_added = FALSE /\ package = <<>> /\ fix_outcome = "none"
    /\ conv_result = <<>> /\ vpc = "idle"

IdlePkg == pkg_docs = <<>> /\ pkg_names = <<>>

IdleExt ==
    /\ ext_state_img = <<>> /\ ext_state_pts = <<>> /\ ext_curr_coord = <<>>
    /\ lut_store = <<>> /\ ext_base = <<>> /\ fix_log = <<>>
    /\ ext_log = ""

IdleLoop ==
    /\ n_arc = 0 /\ half_w = 0 /\ rect_height = 0 /\ hole_radius = 0
    /\ faces = <<>> /\ oi = 0 /\ hi = 0 /\ ring_path = <<>> /\ kpc = "idle"

IdleVec ==
    /\ layer_mask = <<>> /\ synthetic = <<>> /\ mask_uint8 = <<>>
    /\ polygons = <<>> /\ merged_area = 0 /\ mpc = "idle"

IdleGrp ==
    /\ grp_matrix = <<>> /\ grp_mat_id = 0 /\ grp_dilate = FALSE
    /\ layer_groups = <<>> /\ prev_mask = <<>> /\ start_z = 0 /\ gz = 0
    /\ gpc = "idle"

IdleRing ==
    /\ n_o = 0 /\ n_h = 0 /\ ring_is_top = FALSE /\ ring_oi = 0 /\ ring_hi = 0
    /\ ring_step = 0 /\ ring_faces = <<>> /\ ring_trace = <<>> /\ qpc = "idle"

IdleMode ==
    /\ modeling_mode = {} /\ woodblock_available = FALSE
    /\ use_vector_mode = FALSE /\ use_woodblock_mode = FALSE
    /\ mesh_creator = "" /\ ran_mesher = "" /\ factory_mesher = ""
    /\ mdpc = "idle"

IdlePrv ==
    /\ prev_width = 0 /\ prev_height = 0 /\ prev_solid = ""
    /\ exported = <<>> /\ preview_mesh = <<>> /\ preview_note = ""
    /\ ppc = "idle"

IdleAtt ==
    /\ high_res = FALSE /\ mask_solid = <<>> /\ loop_pos = <<>>
    /\ pixel_to_mm_scale = 0 /\ attach_col = 0 /\ top_row = 0
    /\ attach_info = <<>> /\ transform_xy = 0 /\ loop_origin = <<>>
    /\ apc = "idle"

IdleBoard ==
    /\ color_mode = "" /\ backing_color = ""
    /\ block_size_mm = 0 /\ gap_mm = 0
    /\ pixels_per_block = 0 /\ pixels_gap = 0 /\ voxel_w = 0 /\ voxel_h = 0
    /\ full_matrix = <<>> /\ extracted = <<>> /\ lut_pairs = <<>>
    /\ bpc = "idle"

(***************************************************************************)
(* Greedy rectangle merge.                                                 *)
(***************************************************************************)
MaskH(m) == Cardinality(DOMAIN m)
MaskW(m) == Cardinality(DOMAIN m[0])

AllMasks(h, w) == [0..(h-1) -> [0..(w-1) -> BOOLEAN]]
SolidMask(h, w) == [yy \in 0..(h-1) |-> [xx \in 0..(w-1) |-> TRUE]]

\* line 207: a valid starting point is a True pixel not yet processed
CanStart(yy, xx) == mask[yy][xx] /\ ~processed[yy][xx]

CanExtendRightNoProcessed(yy, xe) == xe < MaskW(mask) /\ mask[yy][xe]
\* line 214: while x_end < w and mask[y, x_end] and not processed[y, x_end]
CanExtendRight(yy, xe) ==
    xe < MaskW(mask) /\ mask[yy][xe] /\ ~processed[yy][xe]

RowValidFirstOnly(ye, x0, xe) == mask[ye][x0] /\ ~processed[ye][x0]
\* lines 221-225: the entire row segment [x, x_end) is True and unprocessed
RowValid(ye, x0, xe) ==
    \A xi \in x0..(xe-1) : mask[ye][xi] /\ ~processed[ye][xi]

CanExtendDownNever(ye, x0, xe) == FALSE
\* lines 219-228: while y_end < h, stop at the first invalid row
CanExtendDown(ye, x0, xe) == ye < MaskH(mask) /\ RowValid(ye, x0, xe)

\* line 231: processed[y:y_end, x:x_end] = True
MarkProcessed(p, y0, ye, x0, xe) ==
    [yy \in DOMAIN p |-> [xx \in DOMAIN p[yy] |->
        IF yy >= y0 /\ yy < ye /\ xx >= x0 /\ xx < xe THEN TRUE ELSE p[yy][xx]]]

InitRect ==
    /\ \/ \E h \in 1..MaxMaskH, w \in 1..MaxMaskW : mask \in AllMasks(h, w)
       \/ mask = SolidMask(SolidSide, SolidSide)
    /\ processed = [yy \in DOMAIN mask |-> [xx \in DOMAIN mask[yy] |-> FALSE]]
    /\ rectangles = <<>>
    /\ y = 0 /\ x = 0 /\ x_end = 0 /\ y_end = 0
    /\ rpc = "scan"
    /\ IdleCodec /\ IdleBoard /\ IdleLut /\ IdleConv /\ IdlePkg /\ IdleExt
    /\ IdleLoop /\ IdleVec /\ IdleGrp /\ IdleRing /\ IdleMode /\ IdlePrv
    /\ IdleAtt

\* line 203: for y in range(h): x = 0
NextRow ==
    /\ rpc = "scan" /\ y < MaskH(mask) /\ x >= MaskW(mask)
    /\ y' = y + 1 /\ x' = 0
    /\ UNCHANGED <<mask, processed, rectangles, x_end, y_end, rpc>>
    /\ UNCHANGED notRect

\* lines 207-209
SkipCell ==
    /\ rpc = "scan" /\ y < MaskH(mask) /\ x < MaskW(mask)
    /\ ~CanStart(y, x)
    /\ x' = x + 1
    /\ UNCHANGED <<mask, processed, rectangles, y, x_end, y_end, rpc>>
    /\ UNCHANGED notRect

\* line 213
BeginRect ==
    /\ rpc = "scan" /\ y < MaskH(mask) /\ x < MaskW(mask)
    /\ CanStart(y, x)
    /\ x_end' = x + 1
    /\ rpc' = "right"
    /\ UNCHANGED <<mask, processed, rectangles, y, x, y_end>>
    /\ UNCHANGED notRect

\* lines 214-215
ExpandRight ==
    /\ rpc = "right"
    /\ CanExtendRight(y, x_end)
    /\ x_end' = x_end + 1
    /\ UNCHANGED <<mask, processed, rectangles, y, x, y_end, rpc>>
    /\ UNCHANGED notRect

\* line 218
BeginDown ==
    /\ rpc = "right"
    /\ ~CanExtendRight(y, x_end)
    /\ y_end' = y + 1
    /\ rpc' = "down"
    /\ UNCHANGED <<mask, processed, rectangles, y, x, x_end>>
    /\ UNCHANGED notRect

\* lines 219-228
ExpandDown ==
    /\ rpc = "down"
    /\ CanExtendDown(y_end, x, x_end)
    /\ y_end' = y_end + 1
    /\ UNCHANGED <<mask, processed, rectangles, y, x, x_end, rpc>>
    /\ UNCHANGED notRect

\* lines 231-236
EmitRect ==
    /\ rpc = "down"
    /\ ~CanExtendDown(y_end, x, x_end)
    /\ processed' = MarkProcessed(processed, y, y_end, x, x_end)
    /\ rectangles' = Append(rectangles, <<x, y, x_end, y_end>>)
    /\ x' = x_end
    /\ rpc' = "scan"
    /\ UNCHANGED <<mask, y, x_end, y_end>>
    /\ UNCHANGED notRect

\* line 238: return rectangles
ReturnRects ==
    /\ rpc = "scan" /\ y >= MaskH(mask)
    /\ rpc' = "done"
    /\ UNCHANGED <<mask, processed, rectangles, y, x, x_end, y_end>>
    /\ UNCHANGED notRect

NextRect ==
    \/ NextRow \/ SkipCell \/ BeginRect \/ ExpandRight
    \/ BeginDown \/ ExpandDown \/ EmitRect \/ ReturnRects

SpecRect == InitRect /\ [][NextRect]_vars

(***************************************************************************)
(* Stack codec: index -> 5 base-4 digits, most significant first.          *)
(***************************************************************************)
DigitOfWrongBase(t) == t % (Base + 1)
\* line 98: temp % 4
DigitOf(t) == t % Base

\* line 99: temp //= 4
Shift(t) == t \div Base

RECURSIVE ReverseSeq(_)
ReverseSeq(s) ==
    IF s = <<>> THEN <<>> ELSE Append(ReverseSeq(Tail(s)), Head(s))

KeepOrder(d) == d
\* line 100: stack = digits[::-1]
ReverseDigits(d) == ReverseSeq(d)

InitCodec ==
    /\ ci = 0 /\ temp = 0 /\ digits = <<>> /\ stack = <<>>
    /\ cpc = "start"
    /\ IdleRect /\ IdleBoard /\ IdleLut /\ IdleConv /\ IdlePkg /\ IdleExt
    /\ IdleLoop /\ IdleVec /\ IdleGrp /\ IdleRing /\ IdleMode /\ IdlePrv
    /\ IdleAtt

\* lines 95-96: digits = []; temp = i
StartIndex ==
    /\ cpc = "start" /\ ci < NumStacks
    /\ digits' = <<>> /\ temp' = ci
    /\ cpc' = "digits"
    /\ UNCHANGED <<ci, stack>>
    /\ UNCHANGED notCodec

\* lines 97-99: one pass of "for _ in range(5)"
DigitStep ==
    /\ cpc = "digits" /\ Len(digits) < StackLen
    /\ digits' = Append(digits, DigitOf(temp))
    /\ temp' = Shift(temp)
    /\ UNCHANGED <<ci, stack, cpc>>
    /\ UNCHANGED notCodec

\* line 100
MakeStack ==
    /\ cpc = "digits" /\ Len(digits) = StackLen
    /\ stack' = ReverseDigits(digits)
    /\ cpc' = "stack"
    /\ UNCHANGED <<ci, temp, digits>>
    /\ UNCHANGED notCodec

\* line 94: next i
NextIndex ==
    /\ cpc = "stack"
    /\ ci' = ci + 1
    /\ cpc' = "start"
    /\ UNCHANGED <<temp, digits, stack>>
    /\ UNCHANGED notCodec

NextCodec ==
    \/ StartIndex \/ DigitStep \/ MakeStack \/ NextIndex

SpecCodec == InitCodec /\ [][NextCodec]_vars

(***************************************************************************)
(* The stack of an index as one value: the loop above, run to its end.     *)
(***************************************************************************)
RECURSIVE DigitsOf(_, _)
\* lines 95-99: n passes of the digit loop starting from quotient t
DigitsOf(t, n) ==
    IF n = 0 THEN <<>> ELSE <<DigitOf(t)>> \o DigitsOf(Shift(t), n - 1)

\* lines 95-100
StackOf(i) == ReverseDigits(DigitsOf(i, StackLen))

(***************************************************************************)
(* Colour systems (config.py).  A corner label "White (TL)" is kept as the *)
(* colour it names and the position it names.                              *)
(***************************************************************************)
Label(c, p) == [color |-> c, pos |-> p]

CMYW ==
    [name |-> "CMYW",
     slots |-> <<"White", "Cyan", "Magenta", "Yellow">>,
     map |-> [n \in {"White", "Cyan", "Magenta", "Yellow"} |->
                CASE n = "White" -> 0 [] n = "Cyan" -> 1
                  [] n = "Magenta" -> 2 [] n = "Yellow" -> 3],
     corner_labels_en |-> <<Label("White", "TL"), Label("Cyan", "TR"),
                            Label("Magenta", "BR"), Label("Yellow", "BL")>>]

RYBW ==
    [name |-> "RYBW",
     slots |-> <<"White", "Red", "Yellow", "Blue">>,
     map |-> [n \in {"White", "Red", "Yellow", "Blue"} |->
                CASE n = "White" -> 0 [] n = "Red" -> 1
                  [] n = "Yellow" -> 2 [] n = "Blue" -> 3],
     corner_labels_en |-> <<Label("White", "TL"), Label("Red", "TR"),
                            Label("Blue", "BR"), Label("Yellow", "BL")>>]

SIX_COLOR ==
    [name |-> "6-Color",
     slots |-> <<"White", "Cyan", "Magenta", "Green", "Yellow", "Black">>,
     map |-> [n \in {"White", "Cyan", "Magenta", "Green", "Yellow", "Black"} |->
                CASE n = "White" -> 0 [] n = "Cyan" -> 1 [] n = "Magenta" -> 2
                  [] n = "Green" -> 3 [] n = "Yellow" -> 4 [] n = "Black" -> 5],
     corner_labels_en |-> <<Label("White", "TL"), Label("Cyan", "TR"),
                            Label("Magenta", "BR"), Label("Yellow", "BL")>>]

\* the mode strings of the UI radio buttons and the name of the third system
ColorModes ==
    {"CMYW (Cyan/Magenta/Yellow)", "RYBW (Red/Yellow/Blue)", "6-Color"}

\* Python's "marker in mode" on those strings
Contains(mode, marker) ==
    <<mode, marker>> \in {<<"CMYW (Cyan/Magenta/Yellow)", "CMYW">>,
                          <<"RYBW (Red/Yellow/Blue)", "RYBW">>,
                          <<"6-Color", "6-Color">>}

\* ColorSystem.get
ColorSystemGet(mode) ==
    IF Contains(mode, "6-Color") THEN SIX_COLOR
    ELSE IF Contains(mode, "CMYW") THEN CMYW ELSE RYBW

\* slot_names[mat_id], slots being a 0-based list
SlotName(conf, mat_id) == conf.slots[mat_id + 1]

\* color_map.get(backing_color, 0)
BackingId(conf, name) == IF name \in DOMAIN conf.map THEN conf.map[name] ELSE 0

(***************************************************************************)
(* generate_calibration_board (calibration.py).                            *)
(***************************************************************************)
TotalWOnePad == GridDim + Padding
\* line 80: total_w = total_h = grid_dim + (padding * 2)
TotalW == GridDim + (Padding * 2)
TotalH == TotalW

Max(a, b) == IF a >= b THEN a ELSE b

\* lines 82-83: max(1, int(mm / NOZZLE_WIDTH)), lengths in hundredths of mm
PixelsOf(mm) == Max(1, mm \div NozzleWidth)

ExtentBlockOnly(total, ppb, gap) == total * ppb
\* lines 85-86: total * (pixels_per_block + pixels_gap)
Extent(total, ppb, gap) == total * (ppb + gap)

CellRowNoPad(i) == i \div GridDim
\* line 102: row = (i // grid_dim) + padding
CellRow(i) == (i \div GridDim) + Padding

\* line 103: col = (i % grid_dim) + padding
CellCol(i) == (i % GridDim) + Padding

LayersTopDown(st) == [z \in 0..(ColorLayers - 1) |-> st[ColorLayers - z]]
\* lines 107-108: layer z of the block holds stack[z]
Layers(st) == [z \in 0..(ColorLayers - 1) |-> st[z + 1]]

CornersSwapped(mode) ==
    IF Contains(mode, "RYBW")
    THEN << <<0, 0, 0>>, <<0, TotalW - 1, 1>>,
            <<TotalH - 1, TotalW - 1, 2>>, <<TotalH - 1, 0, 3>> >>
    ELSE << <<0, 0, 0>>, <<0, TotalW - 1, 1>>,
            <<TotalH - 1, TotalW - 1, 3>>, <<TotalH - 1, 0, 2>> >>
\* lines 114-131: (row, col, mat_id) of the four corner markers
Corners(mode) ==
    IF Contains(mode, "RYBW")
    THEN << <<0, 0, 0>>, <<0, TotalW - 1, 1>>,
            <<TotalH - 1, TotalW - 1, 3>>, <<TotalH - 1, 0, 2>> >>
    ELSE << <<0, 0, 0>>, <<0, TotalW - 1, 1>>,
            <<TotalH - 1, TotalW - 1, 2>>, <<TotalH - 1, 0, 3>> >>

PhysCells == (0..(TotalH - 1)) \X (0..(TotalW - 1))

\* the inputs of the model: block and gap sizes of the UI sliders
BoardSizes == {<<b, g>> : b \in {300, 500, 700, 1000}, g \in {40, 82, 200}}
\* the choices of the backing-colour dropdown
BackingColors == {"White", "Cyan", "Magenta", "Yellow", "Red", "Blue"}

InitBoard ==
    /\ color_mode \in ColorModes
    /\ backing_color \in BackingColors
    /\ \E sz \in BoardSizes : block_size_mm = sz[1] /\ gap_mm = sz[2]
    /\ pixels_per_block = 0 /\ pixels_gap = 0 /\ voxel_w = 0 /\ voxel_h = 0
    /\ full_matrix = <<>> /\ extracted = <<>> /\ lut_pairs = <<>>
    /\ bpc = "setup"
    /\ IdleRect /\ IdleCodec /\ IdleLut /\ IdleConv /\ IdlePkg /\ IdleExt
    /\ IdleLoop /\ IdleVec /\ IdleGrp /\ IdleRing /\ IdleMode /\ IdlePrv
    /\ IdleAtt

\* line 91: np.full(..., backing_id)
BlankMatrix(backing_id) ==
    [cell \in PhysCells |-> [z \in 0..(ColorLayers - 1) |-> backing_id]]

\* lines 100-108: the body of the loop for one i
PlaceStack(m, i) ==
    [m EXCEPT ![<<CellRow(i), CellCol(i)>>] = Layers(StackOf(i))]

RECURSIVE PlaceStacks(_, _, _)
\* lines 94-108: the passes lo, lo+1, ..., stop-1 of "for i in range(1024)",
\* in that order: the first half of the range is finished (the matrix,
\* which keeps its shape, is there) before the second half starts
PlaceStacks(m, lo, stop) ==
    IF lo >= stop THEN m
    ELSE IF stop = lo + 1 THEN PlaceStack(m, lo)
    ELSE LET firstHalf == PlaceStacks(m, lo, (lo + stop) \div 2)
         IN IF DOMAIN firstHalf = PhysCells
            THEN PlaceStacks(firstHalf, (lo + stop) \div 2, stop)
            ELSE firstHalf

RECURSIVE PlaceCorners(_, _, _)
\* lines 133-137: the corner markers k, k+1, ..., on every colour layer
PlaceCorners(m, corners, k) ==
    IF k > Len(corners) THEN m
    ELSE PlaceCorners(
            [m EXCEPT ![<<corners[k][1], corners[k][2]>>] =
                          [z \in 0..(ColorLayers - 1) |-> corners[k][3]]],
            corners, k + 1)

\* lines 71-137: sizes, the matrix filled with backing_id, the 1024 stacks,
\* the corner markers
GenerateBoard ==
    /\ bpc = "setup"
    /\ pixels_per_block' = PixelsOf(block_size_mm)
    /\ pixels_gap' = PixelsOf(gap_mm)
    /\ voxel_w' = Extent(TotalW, pixels_per_block', pixels_gap')
    /\ voxel_h' = Extent(TotalH, pixels_per_block', pixels_gap')
    /\ full_matrix' =
         PlaceCorners(
            PlaceStacks(
               BlankMatrix(BackingId(ColorSystemGet(color_mode), backing_color)),
               0, NumStacks),
            Corners(color_mode), 1)
    /\ bpc' = "board"
    /\ UNCHANGED <<color_mode, backing_color, block_size_mm, gap_mm,
                   extracted, lut_pairs>>
    /\ UNCHANGED notBoard

(***************************************************************************)
(* run_extraction (extractor.py) on a photograph of the printed board,     *)
(* with the four corner markers clicked and the correction sliders at      *)
(* their neutral values (offset 0, zoom 1, distortion 0).  What the        *)
(* sampler averages in a cell of the rectified image is kept as the        *)
(* physical grid cell it looked at.                                        *)
(***************************************************************************)
\* lines 157, 164: cx = ((phys_c + 0.5) / 34 * 2 - 1 + 1) / 2 * DST_SIZE,
\* times 2 * PHYSICAL_GRID_SIZE to stay in the integers
CentreScaled(phys) == (2 * phys + 1) * DstSize

\* line 167: 0 <= cx < DST_SIZE
InImage(cs) == 0 <= cs /\ cs < DstSize * 2 * PhysicalGridSize

\* lines 135-143: the rectified image shows physical cell k in
\* [k * CELL_SIZE, (k + 1) * CELL_SIZE), CELL_SIZE = DST_SIZE / 34
WarpedCell(cs) == (cs * PhysicalGridSize) \div (DstSize * 2 * PhysicalGridSize)

PhysOfSame(r) == r
\* line 156: phys_r, phys_c = r + 1, c + 1
PhysOf(r) == r + 1

\* lines 154-175
SampleCell(r, c) ==
    IF InImage(CentreScaled(PhysOf(c))) /\ InImage(CentreScaled(PhysOf(r)))
    THEN <<WarpedCell(CentreScaled(PhysOf(r))), WarpedCell(CentreScaled(PhysOf(c)))>>
    ELSE <<-1, -1>>

DataCells == (0..(DataGridSize - 1)) \X (0..(DataGridSize - 1))

\* lines 151-177
RunExtraction ==
    /\ bpc = "board"
    /\ extracted' = [rc \in DataCells |-> SampleCell(rc[1], rc[2])]
    /\ bpc' = "extracted"
    /\ UNCHANGED <<color_mode, backing_color, block_size_mm, gap_mm,
                   pixels_per_block, pixels_gap, voxel_w, voxel_h,
                   full_matrix, lut_pairs>>
    /\ UNCHANGED notBoard

FlatColMajor(grid, i) == grid[<<i % DataGridSize, i \div DataGridSize>>]
\* converter.py line 218: lut_grid.reshape(-1, 3), row-major
Flat(grid, i) == grid[<<i \div DataGridSize, i % DataGridSize>>]

\* converter.py lines 226-234: entry i is paired with the stack of i
PairLut ==
    /\ bpc = "extracted"
    /\ lut_pairs' = [i \in 0..(NumStacks - 1) |-> <<Flat(extracted, i), StackOf(i)>>]
    /\ bpc' = "paired"
    /\ UNCHANGED <<color_mode, backing_color, block_size_mm, gap_mm,
                   pixels_per_block, pixels_gap, voxel_w, voxel_h,
                   full_matrix, extracted>>
    /\ UNCHANGED notBoard

NextBoard ==
    \/ GenerateBoard \/ RunExtraction \/ PairLut

SpecBoard == InitBoard /\ [][NextBoard]_vars

(***************************************************************************)
(* load_calibrated_lut and the colour match of convert_image_to_3d         *)
(* (converter.py).  Colours are <<R, G, B>> with channels in 0..255.       *)
(***************************************************************************)
\* line 223
base_blue == <<30, 100, 200>>

\* the square of np.linalg.norm(a - b)
Dist2(a, b) ==
    (a[1] - b[1]) * (a[1] - b[1]) + (a[2] - b[2]) * (a[2] - b[2])
        + (a[3] - b[3]) * (a[3] - b[3])

Range(f) == {f[k] : k \in DOMAIN f}

DroppedNearBlue(rgb, st) == Dist2(rgb, base_blue) < BlueDist * BlueDist
\* line 237: dist < 60 and 3 not in stack
Dropped(rgb, st) ==
    Dist2(rgb, base_blue) < BlueDist * BlueDist /\ BlueMaterial \notin Range(st)

\* lines 226-242: the indices that reach the two appends, in loop order
KeptIndices(grid) ==
    SelectSeq([k \in 1..NumStacks |-> k - 1],
              LAMBDA i : ~Dropped(Flat(grid, i), StackOf(i)))

\* line 241: valid_rgb.append(real_rgb)
ValidRgb(grid, kept) == [k \in 1..Len(kept) |-> Flat(grid, kept[k])]

ValidStacksByPosition(grid, kept) == [k \in 1..Len(kept) |-> StackOf(k - 1)]
\* line 242: valid_stacks.append(stack)
ValidStacks(grid, kept) == [k \in 1..Len(kept) |-> StackOf(kept[k])]

Min(S) == CHOOSE v \in S : \A u \in S : v <= u
MaxOf(S) == CHOOSE v \in S : \A u \in S : v >= u

\* the positions of the entries of rgbs at the least distance from q, in
\* construction order
Nearest(rgbs, q) ==
    LET d == [k \in DOMAIN rgbs |-> Dist2(rgbs[k], q)]
        least == Min(Range(d))
    IN SelectSeq([k \in DOMAIN rgbs |-> k], LAMBDA k : d[k] = least)

Farthest(rgbs, q) ==
    LET d == [k \in DOMAIN rgbs |-> Dist2(rgbs[k], q)]
        most == MaxOf(Range(d))
    IN SelectSeq([k \in DOMAIN rgbs |-> k], LAMBDA k : d[k] = most)

QueryFarthest(t, rgbs, q) ==
    LET far == Farthest(rgbs, q)
    IN IF t = "first" THEN far[1] ELSE far[Len(far)]
\* tree.query of one colour: the position of a nearest entry.  Which one
\* of several entries at the same least distance is returned is fixed by
\* the tree as built, not by the library's contract; a built tree either
\* returns the first of them in construction order, or the last.
Query(t, rgbs, q) ==
    LET near == Nearest(rgbs, q)
    IN IF t = "first" THEN near[1] ELSE near[Len(near)]

GatherByPosition(arr, indices) ==
    [p \in DOMAIN indices |-> arr[((p - 1) % Len(arr)) + 1]]
\* lines 848-849: arr[indices]
Gather(arr, indices) == [p \in DOMAIN indices |-> arr[indices[p]]]

\* the colours LUT cells and pixels are drawn from
White == <<255, 255, 255>>
FarBlue == <<30, 100, 140>>
MidBlue == <<30, 100, 170>>
Palette == {White, base_blue, FarBlue}
QueryColors == Palette \cup {MidBlue}
\* the LUT cells that may differ from the rest of the file
TrackedCells == {<<0, 0>>, <<0, 3>>}

\* a LUT file of shape (32, 32, 3)
InitLut ==
    /\ \E b \in Palette : \E over \in [TrackedCells -> Palette] :
          lut_grid = [rc \in DataCells |->
                        IF rc \in TrackedCells THEN over[rc] ELSE b]
    /\ lut_rgb = <<>> /\ ref_stacks = <<>> /\ tree = "none"
    /\ flat_rgb = <<>> /\ matched_rgb = <<>> /\ best_stacks = <<>>
    /\ lpc = "start"
    /\ IdleRect /\ IdleCodec /\ IdleBoard /\ IdleConv /\ IdlePkg /\ IdleExt
    /\ IdleLoop /\ IdleVec /\ IdleGrp /\ IdleRing /\ IdleMode /\ IdlePrv
    /\ IdleAtt

\* lines 743-747: load_calibrated_lut, then tree = KDTree(lut_rgb)
LoadLut ==
    /\ lpc = "start"
    /\ LET kept == KeptIndices(lut_grid)
       IN /\ lut_rgb' = ValidRgb(lut_grid, kept)
          /\ ref_stacks' = ValidStacks(lut_grid, kept)
    /\ tree' \in {"first", "last"}
    /\ lpc' = "loaded"
    /\ UNCHANGED <<lut_grid, flat_rgb, matched_rgb, best_stacks>>
    /\ UNCHANGED notLut

Images == [1..ImgPixels -> QueryColors]

\* tree.query over the colours an image can hold, answered once per colour
QueryTable(t, rgbs) == [c \in QueryColors |-> Query(t, rgbs, c)]

\* lines 845-849: _, indices = tree.query(flat_rgb), one index per pixel
MatchDirect ==
    /\ lpc = "loaded"
    /\ \E answer \in {QueryTable(tree, lut_rgb)} : \E img \in Images :
            LET indices == [p \in DOMAIN img |-> answer[img[p]]]
            IN /\ flat_rgb' = img
               /\ matched_rgb' = Gather(lut_rgb, indices)
               /\ best_stacks' = Gather(ref_stacks, indices)
    /\ lpc' = "matched"
    /\ UNCHANGED <<lut_grid, lut_rgb, ref_stacks, tree>>
    /\ UNCHANGED notLut

\* lines 814-835: the distinct colours of the quantized image are matched
\* once each, and every pixel takes the result of its colour
MatchUnique ==
    /\ lpc = "loaded"
    /\ \E answer \in {QueryTable(tree, lut_rgb)} : \E img \in Images :
            LET unique_colors == Range(img)
                color_to_index == [c \in unique_colors |-> answer[c]]
            IN /\ flat_rgb' = img
               /\ matched_rgb' =
                     [p \in DOMAIN img |-> lut_rgb[color_to_index[img[p]]]]
               /\ best_stacks' =
                     [p \in DOMAIN img |-> ref_stacks[color_to_index[img[p]]]]
    /\ lpc' = "matched"
    /\ UNCHANGED <<lut_grid, lut_rgb, ref_stacks, tree>>
    /\ UNCHANGED notLut

NextLut == LoadLut \/ MatchDirect \/ MatchUnique

SpecLut == InitLut /\ [][NextLut]_vars

(***************************************************************************)
(* The extractor's click hints (ui/callbacks.py) and the click order.     *)
(***************************************************************************)
\* get_first_hint / get_next_hint: the label shown when pts_count corner
\* points are held, "done" once four are held
NextHint(mode, pts_count) ==
    IF pts_count >= 4 THEN Label("done", "done")
    ELSE ColorSystemGet(mode).corner_labels_en[pts_count + 1]

\* extractor.py lines 137-140: the click order TL, TR, BR, BL of the
\* destination square
ClickPosition(n) ==
    CASE n = 1 -> "TL" [] n = 2 -> "TR" [] n = 3 -> "BR" [] n = 4 -> "BL"

\* calibration.py lines 111-113: row 0 is the top, col 0 the left
CornerCell(pos) ==
    CASE pos = "TL" -> <<0, 0>>
      [] pos = "TR" -> <<0, TotalW - 1>>
      [] pos = "BR" -> <<TotalH - 1, TotalW - 1>>
      [] pos = "BL" -> <<TotalH - 1, 0>>

(***************************************************************************)
(* safe_fix_3mf_names (utils/helpers.py).  The model document of a package *)
(* is the sequence of its <object> elements in file order, each with its   *)
(* id, its name ("" when it has none) and the object ids of its            *)
(* <component> children, and the object ids of the <item> elements of its  *)
(* <build> section.                                                        *)
(***************************************************************************)
Object(id, name, components) ==
    [id |-> id, name |-> name, components |-> components]

AssemblyName == "Lumina_Model"

\* line 52: object_ids, in order of appearance
ObjectIds(doc) == [k \in DOMAIN doc.objects |-> doc.objects[k].id]

MaxId(ids) == CHOOSE m \in Range(ids) : \A n \in Range(ids) : n <= m

RenameNone(objects, slot_names) == objects
\* lines 56-67: object number real_idx takes slot_names[real_idx]; objects
\* beyond the list keep their tag
Rename(objects, slot_names) ==
    [k \in DOMAIN objects |->
        IF k > Len(slot_names) THEN objects[k]
        ELSE [objects[k] EXCEPT !.name = slot_names[k]]]

AssemblyIdZero(ids) == 0
\* lines 72-73
AssemblyId(ids) == MaxId(ids) + 1

AddAssemblyKeepBuild(doc) ==
    [doc EXCEPT !.objects =
        Append(doc.objects,
               Object(AssemblyId(ObjectIds(doc)), AssemblyName, ObjectIds(doc)))]
\* lines 70-98: the assembly object goes in before </resources>, after the
\* objects already there, and the build section is replaced
AddAssembly(doc) ==
    [objects |-> Append(doc.objects,
                        Object(AssemblyId(ObjectIds(doc)), AssemblyName,
                               ObjectIds(doc))),
     build |-> <<AssemblyId(ObjectIds(doc))>>]

\* lines 35-100: the model document after the post-processing
FixedDoc(doc, slot_names, create_assembly) ==
    LET renamed == [doc EXCEPT !.objects = Rename(doc.objects, slot_names)]
    IN IF create_assembly /\ Len(doc.objects) > 1
       THEN AddAssembly(renamed)
       ELSE renamed

\* the names of the objects of a document, in file order
ObjectNames(doc) == [k \in DOMAIN doc.objects |-> doc.objects[k].name]

(***************************************************************************)
(* convert_image_to_3d (converter.py): from the matched stacks of the      *)
(* image's pixels to the voxel matrix, the scene and the exported package. *)
(* The image is one row of ConvPixels pixels; pixel 1 is pixel [0, 0].     *)
(***************************************************************************)
\* what a pixel of the resized image can be: its alpha, its colour in
\* bg_reference, and the stack the colour match gave it
PixelKinds ==
    { [alpha |-> 0,   rgb |-> <<100, 100, 100>>, stack |-> <<1, 1, 1, 1, 1>>],
      [alpha |-> 9,   rgb |-> <<200, 100, 100>>, stack |-> <<2, 2, 2, 2, 2>>],
      [alpha |-> 10,  rgb |-> <<100, 100, 100>>, stack |-> <<0, 0, 0, 0, 0>>],
      [alpha |-> 255, rgb |-> <<110, 100, 100>>, stack |-> <<2, 2, 2, 2, 3>>],
      [alpha |-> 255, rgb |-> <<90, 100, 100>>,  stack |-> <<0, 1, 2, 3, 0>>],
      [alpha |-> 255, rgb |-> <<200, 100, 100>>, stack |-> <<3, 3, 3, 3, 3>>] }

\* the two choices of the structure radio (layout.py), written in English:
\* the first holds the marker for "double-sided" that line 966 looks for
StructureModes == {"double-sided (keychain)", "single-sided (relief)"}
IsDoubleSided(mode) == mode = "double-sided (keychain)"

\* the colour modes of the converter's dropdown (layout.py)
ConvColorModes == {"CMYW (Cyan/Magenta/Yellow)", "RYBW (Red/Yellow/Blue)"}

\* spacer thickness, in hundredths of a millimetre
SpacerThicks == {2, 16}
\* background tolerance
BgTols == {0, 40}

\* line 964: max(1, int(round(spacer_thick / LAYER_HEIGHT))), LAYER_HEIGHT
\* being 8 hundredths; no thickness of SpacerThicks is half way
SpacerLayers(thick) == Max(1, (2 * thick + LayerHeight) \div (2 * LayerHeight))

\* lines 858: np.sum(np.abs(bg_reference - bg_color)) on uint8 arrays, where
\* the difference wraps modulo 256 before np.abs sees it
Diff(rgb, bg) ==
    ((rgb[1] - bg[1]) % 256) + ((rgb[2] - bg[2]) % 256) + ((rgb[3] - bg[3]) % 256)

\* lines 855-859
MaskTransparentOf(alphas, rgbs, bg_on, tol) ==
    [p \in DOMAIN alphas |->
        \/ alphas[p] < AlphaCut
        \/ bg_on /\ Diff(rgbs[p], rgbs[1]) < tol]

Sentinel == 0 - 1
SentinelStack == [z \in 1..ColorLayers |-> Sentinel]

KeepStacks(stacks, transparent) == stacks
\* line 861: best_stacks[mask_transparent] = -1
MaskStacks(stacks, transparent) ==
    [p \in DOMAIN stacks |-> IF transparent[p] THEN SentinelStack ELSE stacks[p]]

TotalLayers(double, spacers) ==
    IF double THEN ColorLayers + spacers + ColorLayers ELSE ColorLayers + spacers

SpacerSolidEverywhere(transparent) == [p \in DOMAIN transparent |-> 0]
\* lines 972-973 and 982-983
SpacerOf(transparent) ==
    [p \in DOMAIN transparent |-> IF transparent[p] THEN Sentinel ELSE 0]

\* the matrix with the top block in the layer order of the bottom block
FullMatrixTopUnreversed(stacks, transparent, double, spacers) ==
    [z \in 0..(TotalLayers(double, spacers) - 1) |->
        IF z < ColorLayers
        THEN [p \in DOMAIN stacks |-> stacks[p][z + 1]]
        ELSE IF z < ColorLayers + spacers
        THEN SpacerOf(transparent)
        ELSE [p \in DOMAIN stacks |->
                 stacks[p][z - ColorLayers - spacers + 1]]]

\* lines 962-985: full_matrix[z][pixel], z from 0
FullMatrixOf(stacks, transparent, double, spacers) ==
    [z \in 0..(TotalLayers(double, spacers) - 1) |->
        IF z < ColorLayers
        THEN [p \in DOMAIN stacks |-> stacks[p][z + 1]]
        ELSE IF z < ColorLayers + spacers
        THEN SpacerOf(transparent)
        ELSE [p \in DOMAIN stacks |->
                 stacks[p][ColorLayers - (z - ColorLayers - spacers)]]]

\* some voxel of the matrix holds material mat_id
HasVoxel(matrix, mat_id) ==
    \E z \in DOMAIN matrix : \E p \in DOMAIN matrix[z] : matrix[z][p] = mat_id

\* the materials the loop of line 1008 goes through
MatIds == 0..3

\* the LUT file handed to the conversion: whether np.load can read it, and
\* the shape of the array it holds
LutShapes == {<<32, 32, 3>>, <<32, 32, 4>>, <<10, 10, 3>>, <<64, 64, 3>>}
LutFiles ==
    {[readable |-> FALSE, shape |-> <<32, 32, 3>>]}
        \cup {[readable |-> TRUE, shape |-> s] : s \in LutShapes}

ShapeSize(shape) == shape[1] * shape[2] * shape[3]

\* lines 216-220: np.load or reshape(-1, 3) raises inside the try
LoadRaises(file) == ~file.readable \/ ShapeSize(file.shape) % 3 # 0

\* line 234: measured_colors[i] for i up to 1023, outside the try
IndexRaises(file) == ShapeSize(file.shape) \div 3 < NumStacks

\* the loader's message for a file it cannot load (line 220), in English
CorruptLutMsg == "LUT file corrupt"

NoDoc == [objects |-> <<>>, build |-> <<>>]
NoPackage == [state |-> "none", doc |-> NoDoc]
NoResult == [returned |-> FALSE, out_path |-> "none", msg |-> ""]

\* the inputs of a conversion: background removal off, or on with a tolerance
BgSettings == {<<FALSE, 40>>} \cup {<<TRUE, t>> : t \in BgTols}
Meshers == {"slab", "vector"}

InitConv ==
    /\ \E img \in [1..ConvPixels -> PixelKinds] :
          /\ alpha_arr = [p \in 1..ConvPixels |-> img[p].alpha]
          /\ rgb_arr = [p \in 1..ConvPixels |-> img[p].rgb]
          /\ pixel_stacks = [p \in 1..ConvPixels |-> img[p].stack]
    /\ conv_color_mode \in ConvColorModes
    /\ \E bg \in BgSettings : auto_bg = bg[1] /\ bg_tol = bg[2]
    /\ structure_mode \in StructureModes
    /\ spacer_thick \in SpacerThicks
    /\ mesher \in Meshers
    /\ add_loop \in BOOLEAN
    /\ lut_file \in LutFiles
    /\ mask_transparent = <<>> /\ loop_info = "none" /\ voxel_matrix = <<>>
    /\ scene = <<>> /\ loop_added = FALSE
    /\ package = NoPackage /\ conv_result = NoResult /\ fix_outcome = "none"
    /\ vpc = "load"
    /\ IdleRect /\ IdleCodec /\ IdleBoard /\ IdleLut /\ IdlePkg /\ IdleExt
    /\ IdleLoop /\ IdleVec /\ IdleGrp /\ IdleRing /\ IdleMode /\ IdlePrv
    /\ IdleAtt

\* lines 743-746 with load_calibrated_lut: a file that does not load returns
\* the loader's message; a file with too few entries raises out of the
\* conversion; any other file is taken
LoadLutFile ==
    /\ vpc = "load"
    /\ IF LoadRaises(lut_file)
       THEN /\ conv_result' = [returned |-> TRUE, out_path |-> "none",
                               msg |-> CorruptLutMsg]
            /\ vpc' = "returned"
       ELSE IF IndexRaises(lut_file)
       THEN /\ conv_result' = conv_result
            /\ vpc' = "raised"
       ELSE /\ conv_result' = conv_result
            /\ vpc' = "mask"
    /\ UNCHANGED <<alpha_arr, rgb_arr, pixel_stacks, conv_color_mode, auto_bg,
                   bg_tol, structure_mode, spacer_thick, mesher, add_loop,
                   lut_file, mask_transparent, loop_info, voxel_matrix, scene,
                   loop_added, package, fix_outcome>>
    /\ UNCHANGED notConv

\* lines 855-861
MaskTransparent ==
    /\ vpc = "mask"
    /\ mask_transparent' = MaskTransparentOf(alpha_arr, rgb_arr, auto_bg, bg_tol)
    /\ pixel_stacks' = MaskStacks(pixel_stacks, mask_transparent')
    /\ vpc' = "loop"
    /\ UNCHANGED <<alpha_arr, rgb_arr, conv_color_mode, auto_bg, bg_tol,
                   structure_mode, spacer_thick, mesher, add_loop, lut_file,
                   loop_info, voxel_matrix, scene, loop_added, package,
                   conv_result, fix_outcome>>
    /\ UNCHANGED notConv

\* lines 873-923: a loop is planned when one is asked for and some pixel is
\* solid
PlaceLoop ==
    /\ vpc = "loop"
    /\ loop_info' = IF add_loop /\ \E p \in DOMAIN mask_transparent :
                                       ~mask_transparent[p]
                    THEN "loop" ELSE "none"
    /\ vpc' = "voxels"
    /\ UNCHANGED <<alpha_arr, rgb_arr, pixel_stacks, conv_color_mode, auto_bg,
                   bg_tol, structure_mode, spacer_thick, mesher, add_loop,
                   lut_file, mask_transparent, voxel_matrix, scene, loop_added,
                   package, conv_result, fix_outcome>>
    /\ UNCHANGED notConv

\* lines 962-985
BuildVoxels ==
    /\ vpc = "voxels"
    /\ voxel_matrix' = FullMatrixOf(pixel_stacks, mask_transparent,
                                    IsDoubleSided(structure_mode),
                                    SpacerLayers(spacer_thick))
    /\ vpc' = "scene"
    /\ UNCHANGED <<alpha_arr, rgb_arr, pixel_stacks, conv_color_mode, auto_bg,
                   bg_tol, structure_mode, spacer_thick, mesher, add_loop,
                   lut_file, mask_transparent, loop_info, scene, loop_added,
                   package, conv_result, fix_outcome>>
    /\ UNCHANGED notConv

LoopName == "Keychain_Loop"
MaterialPart(mat_id, name) == [kind |-> "material", mat |-> mat_id, name |-> name]
LoopPart == [kind |-> "loop", mat |-> Sentinel, name |-> LoopName]

\* the materials mesh_creator returns a mesh for.  create_slab_mesh (lines
\* 247-286) returns one exactly when some voxel holds the material;
\* create_vector_mesh (lines 289-430) returns none without such a voxel and,
\* with one, still returns none when no contour survives its area filters,
\* which depends on the shape of the layer masks
MeshedSets(matrix, msh) ==
    LET present == {m \in MatIds : HasVoxel(matrix, m)}
    IN IF msh = "slab" THEN {present} ELSE SUBSET present

PartNameFirstSlot(slots, mat_id) == slots[1]
\* line 1013: mesh.metadata['name'] = slot_names[mat_id]
PartName(slots, mat_id) == slots[mat_id + 1]

\* lines 1008-1014: one part per material with a mesh, by material id
MaterialParts(slots, meshed) ==
    LET ids == SelectSeq([k \in 1..4 |-> k - 1], LAMBDA m : m \in meshed)
    IN [k \in DOMAIN ids |-> MaterialPart(ids[k], PartName(slots, ids[k]))]

\* lines 1008-1044: the material parts, then the loop when one is planned
\* and create_keychain_loop does not raise
BuildScene ==
    /\ vpc = "scene"
    /\ \E meshed \in MeshedSets(voxel_matrix, mesher) : \E loop_ok \in BOOLEAN :
          LET parts == MaterialParts(ColorSystemGet(conv_color_mode).slots, meshed)
          IN /\ loop_added' = (add_loop /\ loop_info # "none" /\ loop_ok)
             /\ scene' = IF loop_added' THEN Append(parts, LoopPart) ELSE parts
    /\ vpc' = "export"
    /\ UNCHANGED <<alpha_arr, rgb_arr, pixel_stacks, conv_color_mode, auto_bg,
                   bg_tol, structure_mode, spacer_thick, mesher, add_loop,
                   lut_file, mask_transparent, loop_info, voxel_matrix,
                   package, conv_result, fix_outcome>>
    /\ UNCHANGED notConv

\* line 1048: scene.export writes one object per geometry of the scene, in
\* the order they were added, numbered from 1 and all listed in the build
\* section
ExportedDoc(parts) ==
    [objects |-> [k \in DOMAIN parts |-> Object(k, parts[k].name, <<>>)],
     build |-> [k \in DOMAIN parts |-> k]]

ExportScene ==
    /\ vpc = "export"
    /\ package' = [state |-> "written", doc |-> ExportedDoc(scene)]
    /\ vpc' = "fix"
    /\ UNCHANGED <<alpha_arr, rgb_arr, pixel_stacks, conv_color_mode, auto_bg,
                   bg_tol, structure_mode, spacer_thick, mesher, add_loop,
                   lut_file, mask_transparent, loop_info, voxel_matrix, scene,
                   loop_added, conv_result, fix_outcome>>
    /\ UNCHANGED notConv

\* line 1087
NamesToFix(slots, with_loop) ==
    IF with_loop THEN Append(slots, LoopName) ELSE slots

\* what the file system lets safe_fix_3mf_names do
FixOutcomes == {"ok", "read_fails", "write_fails"}

\* helpers.py lines 21-110 on the package at filepath: reading it may raise
\* (the file stays as it is), writing it back may raise after the file was
\* opened for writing (the file is left cut short); either way the except
\* clause of line 109 prints a warning and the function returns
PackageAfterFix(pkg, slot_names, outcome) ==
    IF outcome = "ok"
    THEN [state |-> "written", doc |-> FixedDoc(pkg.doc, slot_names, TRUE)]
    ELSE IF outcome = "read_fails" THEN pkg
    ELSE [state |-> "truncated", doc |-> NoDoc]

\* lines 1087-1088
FixNames ==
    /\ vpc = "fix"
    /\ \E outcome \in FixOutcomes :
          /\ fix_outcome' = outcome
          /\ package' = PackageAfterFix(
                package,
                NamesToFix(ColorSystemGet(conv_color_mode).slots, loop_added),
                outcome)
    /\ vpc' = "return"
    /\ UNCHANGED <<alpha_arr, rgb_arr, pixel_stacks, conv_color_mode, auto_bg,
                   bg_tol, structure_mode, spacer_thick, mesher, add_loop,
                   lut_file, mask_transparent, loop_info, voxel_matrix, scene,
                   loop_added, conv_result>>
    /\ UNCHANGED notConv

\* the message of line 1092, in English
DoneMsg == "conversion done"

\* lines 1090-1103
ReturnResult ==
    /\ vpc = "return"
    /\ conv_result' = [returned |-> TRUE, out_path |-> "3mf", msg |-> DoneMsg]
    /\ vpc' = "returned"
    /\ UNCHANGED <<alpha_arr, rgb_arr, pixel_stacks, conv_color_mode, auto_bg,
                   bg_tol, structure_mode, spacer_thick, mesher, add_loop,
                   lut_file, mask_transparent, loop_info, voxel_matrix, scene,
                   loop_added, package, fix_outcome>>
    /\ UNCHANGED notConv

NextConv ==
    \/ LoadLutFile \/ MaskTransparent \/ PlaceLoop \/ BuildVoxels
    \/ BuildScene \/ ExportScene \/ FixNames \/ ReturnResult

SpecConv == InitConv /\ [][NextConv]_vars

\* the documents the post-processing is run on: up to MaxObjects objects
\* with distinct ids, no components, all of them in the build section
RECURSIVE IdSeqs(_)
IdSeqs(n) ==
    IF n = 0 THEN {<<>>}
    ELSE {Append(ids, i) : ids \in IdSeqs(n - 1), i \in 1..MaxObjectId}

Distinct(ids) == \A j, k \in DOMAIN ids : j # k => ids[j] # ids[k]

ExportedName == "geometry"

InputDocs ==
    {[objects |-> [k \in DOMAIN ids |-> Object(ids[k], ExportedName, <<>>)],
      build |-> ids] :
        ids \in {s \in UNION {IdSeqs(n) : n \in 0..MaxObjects} : Distinct(s)}}

\* the name lists the pipeline hands over (calibration.py line 156,
\* converter.py line 1087), and a list of one name
NameLists ==
    {CMYW.slots, RYBW.slots, Append(CMYW.slots, LoopName), <<"White">>}

\* line 11: create_assembly is left at its default by every caller
CreateAssembly == TRUE

InitPkg ==
    /\ \E doc \in InputDocs : pkg_docs = <<doc>>
    /\ pkg_names \in NameLists
    /\ IdleRect /\ IdleCodec /\ IdleBoard /\ IdleLut /\ IdleConv /\ IdleExt
    /\ IdleLoop /\ IdleVec /\ IdleGrp /\ IdleRing /\ IdleMode /\ IdlePrv
    /\ IdleAtt

\* the document in the package now
CurrentDoc == pkg_docs[Len(pkg_docs)]

\* one run of safe_fix_3mf_names on the package, with the same name list
RunFix ==
    /\ pkg_docs # <<>>
    /\ Len(pkg_docs) <= MaxFixRuns
    /\ pkg_docs' = Append(pkg_docs, FixedDoc(CurrentDoc, pkg_names, CreateAssembly))
    /\ UNCHANGED pkg_names
    /\ UNCHANGED notPkg

NextPkg == RunFix

SpecPkg == InitPkg /\ [][NextPkg]_vars

(***************************************************************************)
(* The extractor tab: corner collection (ui/callbacks.py), run_extraction, *)
(* probe_lut_cell and manual_fix_cell (core/extractor.py).  The LUT file   *)
(* at LUT_FILE_PATH is a grid of 32 rows of 32 colours, grid[r + 1][c + 1] *)
(* for cell (r, c).  A photograph is kept as the colours the sampler reads *)
(* from it; the sampling itself is the subject of SpecBoard.               *)
(***************************************************************************)
NoImage == [id |-> "none", rot |-> 0]
Photo(rot) == [id |-> "photo", rot |-> rot]

\* what the sampler averages at cell (r, c) of a photograph
PhotoCell(img, r, c) == <<8 * r, 8 * c, 60 * img.rot + 1>>

\* lines 149-175: the extracted array
Sampled(img) ==
    [r \in 1..DataGridSize |-> [c \in 1..DataGridSize |->
        PhotoCell(img, r - 1, c - 1)]]

NoLut == [exists |-> FALSE, grid |-> <<>>]
\* a LUT file left by an earlier session
EarlierLut == [exists |-> TRUE, grid |-> Sampled(Photo(2))]

\* ext_curr_coord = None
NoCoord == <<>>

\* the messages of run_extraction and manual_fix_cell, in English
MissingImageMsg == "upload an image first"
NeedPointsMsg == "click the 4 corner points"
ExtractedMsg == "extraction done, LUT saved"
FixErrorMsg == "error"
FixedMsg == "fixed"
FormatErrorMsg == "format error"

\* corner clicks on the working image, <<x, y>>
ClickPoints == {<<100, 120>>, <<900, 130>>}
\* clicks on the 512 x 512 LUT preview, <<x, y>>
PreviewClicks == {<<0, 0>>, <<511, 17>>}

\* callbacks.py lines 58-63: the points after a click at p
ClickedPointsUpToFive(pts, p) == IF Len(pts) >= 5 THEN pts ELSE Append(pts, p)
ClickedPoints(pts, p) == IF Len(pts) >= 4 THEN pts ELSE Append(pts, p)

PointsAny(pts) == TRUE
\* extractor.py line 131: len(points) != 4 is refused
PointsComplete(pts) == Len(pts) = 4

\* lines 194-197: scale = 512 / 32; the cell under a preview click
PreviewScale == 512 \div DataGridSize
Clamp(v) == IF v < 0 THEN 0
            ELSE IF v > DataGridSize - 1 THEN DataGridSize - 1 ELSE v
ProbeCoord(click) ==
    <<Clamp(click[2] \div PreviewScale), Clamp(click[1] \div PreviewScale)>>

(***************************************************************************)
(* Colour strings.  A "#..." or bare hex string is its sequence of hex     *)
(* digits (16 stands for a character that is no hex digit); an "rgb(...)"  *)
(* or "rgba(...)" string is its sequence of comma-separated numbers, in    *)
(* tenths.                                                                 *)
(***************************************************************************)
HexByte(n) == <<n \div 16, n % 16>>
HexText(rgb) == HexByte(rgb[1]) \o HexByte(rgb[2]) \o HexByte(rgb[3])

ColorForms == {"#hex", "hex", "rgb", "rgba"}
\* the string of a colour in each form the picker can hand over; the rgba
\* form carries fractions and an alpha
FormatColor(form, rgb) ==
    IF form = "#hex" THEN [prefix |-> "#", body |-> HexText(rgb)]
    ELSE IF form = "hex" THEN [prefix |-> "", body |-> HexText(rgb)]
    ELSE IF form = "rgb"
    THEN [prefix |-> "rgb", body |-> <<10 * rgb[1], 10 * rgb[2], 10 * rgb[3]>>]
    ELSE [prefix |-> "rgba",
          body |-> <<10 * rgb[1] + 5, 10 * rgb[2] + 2, 10 * rgb[3] + 9, 10>>]

\* "#f00", "rgb(1, 2)" and str(None)
ShortHexText == [prefix |-> "#", body |-> <<15, 0, 0>>]
ShortRgbText == [prefix |-> "rgb", body |-> <<10, 20>>]
NoneText == [prefix |-> "", body |-> <<16, 16, 16, 14>>]

\* hex_s[i:i+2], i 0-based
HexSlice(body, i) ==
    SubSeq(body, i + 1, IF i + 2 <= Len(body) THEN i + 2 ELSE Len(body))
\* int(s, 16) raises on an empty string and on a character that is no digit
HexRaises(s) == s = <<>> \/ \E k \in DOMAIN s : s[k] > 15
HexValue(s) == IF Len(s) = 1 THEN s[1] ELSE 16 * s[1] + s[2]

\* lines 221-232: the colour a string is parsed to, or ok = FALSE where the
\* parse raises
ParseColor(text) ==
    IF text.prefix \in {"rgb", "rgba"}
    THEN IF Len(text.body) >= 3
         THEN [ok |-> TRUE,
               rgb |-> <<text.body[1] \div 10, text.body[2] \div 10,
                         text.body[3] \div 10>>]
         ELSE [ok |-> TRUE, rgb |-> <<0, 0, 0>>]
    ELSE IF \E i \in {0, 2, 4} : HexRaises(HexSlice(text.body, i))
         THEN [ok |-> FALSE, rgb |-> <<0, 0, 0>>]
         ELSE [ok |-> TRUE,
               rgb |-> <<HexValue(HexSlice(text.body, 0)),
                         HexValue(HexSlice(text.body, 2)),
                         HexValue(HexSlice(text.body, 4))>>]

PickedColors == {<<255, 0, 0>>, <<18, 52, 86>>}
NoColor == <<>>
\* what the picker can hand to manual_fix_cell: a string, with the colour
\* it stands for (NoColor for a string that stands for none)
ColorInputs ==
    {[text |-> FormatColor(f, c), color |-> c] :
        f \in ColorForms, c \in PickedColors}
      \cup {[text |-> t, color |-> NoColor] :
              t \in {ShortHexText, ShortRgbText, NoneText}}

StoreRow(grid, r, c, rgb) ==
    [grid EXCEPT ![r + 1] = [k \in DOMAIN grid[r + 1] |-> rgb]]
\* line 234: lut[r, c] = new_color
StoreCell(grid, r, c, rgb) == [grid EXCEPT ![r + 1][c + 1] = rgb]

InitExt ==
    /\ ext_state_img = NoImage
    /\ ext_state_pts = <<>>
    /\ ext_curr_coord = NoCoord
    /\ lut_store \in {NoLut, EarlierLut}
    /\ ext_base = lut_store.grid
    /\ fix_log = <<>>
    /\ ext_log = ""
    /\ IdleRect /\ IdleCodec /\ IdleBoard /\ IdleLut /\ IdleConv /\ IdlePkg
    /\ IdleLoop /\ IdleVec /\ IdleGrp /\ IdleRing /\ IdleMode /\ IdlePrv
    /\ IdleAtt

\* callbacks.py lines 34-37
on_extractor_upload ==
    /\ ext_state_img' = Photo(0)
    /\ ext_state_pts' = <<>>
    /\ ext_curr_coord' = NoCoord
    /\ UNCHANGED <<lut_store, ext_base, fix_log, ext_log>>
    /\ UNCHANGED notExt

\* callbacks.py lines 40-43
on_extractor_mode_change ==
    /\ ext_state_pts' = <<>>
    /\ UNCHANGED <<ext_state_img, ext_curr_coord, lut_store, ext_base,
                   fix_log, ext_log>>
    /\ UNCHANGED notExt

\* callbacks.py lines 46-52
on_extractor_rotate ==
    /\ ext_state_img' =
          IF ext_state_img = NoImage THEN NoImage
          ELSE Photo((ext_state_img.rot + 1) % 4)
    /\ ext_state_pts' = <<>>
    /\ UNCHANGED <<ext_curr_coord, lut_store, ext_base, fix_log, ext_log>>
    /\ UNCHANGED notExt

\* callbacks.py lines 55-63: a click on the working image
on_extractor_click ==
    /\ ext_state_img # NoImage
    /\ \E p \in ClickPoints : ext_state_pts' = ClickedPoints(ext_state_pts, p)
    /\ UNCHANGED <<ext_state_img, ext_curr_coord, lut_store, ext_base,
                   fix_log, ext_log>>
    /\ UNCHANGED notExt

\* callbacks.py lines 66-69
on_extractor_clear ==
    /\ ext_state_pts' = <<>>
    /\ UNCHANGED <<ext_state_img, ext_curr_coord, lut_store, ext_base,
                   fix_log, ext_log>>
    /\ UNCHANGED notExt

\* extractor.py lines 127-182
run_extraction ==
    /\ IF ext_state_img = NoImage
       THEN /\ ext_log' = MissingImageMsg
            /\ UNCHANGED <<lut_store, ext_base, fix_log>>
       ELSE IF ~PointsComplete(ext_state_pts)
       THEN /\ ext_log' = NeedPointsMsg
            /\ UNCHANGED <<lut_store, ext_base, fix_log>>
       ELSE /\ lut_store' = [exists |-> TRUE, grid |-> Sampled(ext_state_img)]
            /\ ext_base' = Sampled(ext_state_img)
            /\ fix_log' = <<>>
            /\ ext_log' = ExtractedMsg
    /\ UNCHANGED <<ext_state_img, ext_state_pts, ext_curr_coord>>
    /\ UNCHANGED notExt

\* extractor.py lines 185-209: a click on the LUT preview
probe_lut_cell ==
    /\ \E click \in PreviewClicks :
          ext_curr_coord' =
              IF lut_store.exists THEN ProbeCoord(click) ELSE NoCoord
    /\ UNCHANGED <<ext_state_img, ext_state_pts, lut_store, ext_base,
                   fix_log, ext_log>>
    /\ UNCHANGED notExt

\* extractor.py lines 212-237
manual_fix_cell ==
    /\ Len(fix_log) < MaxFixes
    /\ \E input \in ColorInputs :
          IF ext_curr_coord = NoCoord \/ ~lut_store.exists
          THEN /\ ext_log' = FixErrorMsg
               /\ UNCHANGED <<lut_store, fix_log>>
          ELSE IF ~ParseColor(input.text).ok
          THEN /\ ext_log' = FormatErrorMsg
               /\ UNCHANGED <<lut_store, fix_log>>
          ELSE /\ lut_store' =
                     [lut_store EXCEPT !.grid =
                         StoreCell(lut_store.grid, ext_curr_coord[1],
                                   ext_curr_coord[2],
                                   ParseColor(input.text).rgb)]
               /\ fix_log' = Append(fix_log, [coord |-> ext_curr_coord,
                                              color |-> input.color])
               /\ ext_log' = FixedMsg
    /\ UNCHANGED <<ext_state_img, ext_state_pts, ext_curr_coord, ext_base>>
    /\ UNCHANGED notExt

NextExt ==
    \/ on_extractor_upload
    \/ on_extractor_mode_change
    \/ on_extractor_rotate
    \/ on_extractor_click
    \/ on_extractor_clear
    \/ run_extraction

SpecExt == InitExt /\ [][NextExt]_vars

\* the LUT tools after an upload and four corner clicks, with or without a
\* LUT file on disk
FourPoints == {<<p, q, q, p>> : p, q \in ClickPoints}

InitFix ==
    /\ ext_state_img = Photo(0)
    /\ ext_state_pts \in FourPoints
    /\ ext_curr_coord = NoCoord
    /\ lut_store \in {NoLut, EarlierLut}
    /\ ext_base = lut_store.grid
    /\ fix_log = <<>>
    /\ ext_log = ""
    /\ IdleRect /\ IdleCodec /\ IdleBoard /\ IdleLut /\ IdleConv /\ IdlePkg
    /\ IdleLoop /\ IdleVec /\ IdleGrp /\ IdleRing /\ IdleMode /\ IdlePrv
    /\ IdleAtt

NextFix ==
    \/ run_extraction
    \/ probe_lut_cell
    \/ manual_fix_cell

SpecFix == InitFix /\ [][NextFix]_vars

(***************************************************************************)
(* create_keychain_loop (converter.py).  Lengths are in hundredths of a    *)
(* millimetre.  A vertex is its index in the vertices list, a face a       *)
(* triple of indices.  The outer ring holds n_arc + 3 points and the hole  *)
(* ring n_arc (n_hole = n_arc = 32 in the code), both counter-clockwise.   *)
(***************************************************************************)
LoopWidths == {400}
LoopLengths == {800}
HoleDias == {0, 250, 400}

\* lines 53-57
HalfW(width_mm) == width_mm \div 2
HoleRadius(width_mm, hole_dia_mm) ==
    LET a == hole_dia_mm \div 2
        b == (8 * HalfW(width_mm)) \div 10
    IN IF a <= b THEN a ELSE b
RectHeight(width_mm, length_mm) == Max(20, length_mm - HalfW(width_mm))

\* lines 62-82: n_outer = len(outer_pts)
NOuter == n_arc + 3
\* line 92
NHolePts == n_arc

\* lines 111-114
BottomOuterStart == 0
BottomHoleStart == NOuter
TopOuterStart == NOuter + NHolePts
TopHoleStart == NOuter + NHolePts + NOuter

RECURSIVE OuterWalls(_)
\* lines 116-123, the iterations i < n
OuterWalls(n) ==
    IF n = 0 THEN <<>>
    ELSE LET i == n - 1
             i_next == (i + 1) % NOuter
             bi == BottomOuterStart + i
             bi_next == BottomOuterStart + i_next
             ti == TopOuterStart + i
             ti_next == TopOuterStart + i_next
         IN OuterWalls(n - 1) \o <<<<bi, bi_next, ti_next>>, <<bi, ti_next, ti>>>>

RECURSIVE HoleWalls(_)
\* lines 125-132, the iterations i < n
HoleWalls(n) ==
    IF n = 0 THEN <<>>
    ELSE LET i == n - 1
             i_next == (i + 1) % NHolePts
             bi == BottomHoleStart + i
             bi_next == BottomHoleStart + i_next
             ti == TopHoleStart + i
             ti_next == TopHoleStart + i_next
         IN HoleWalls(n - 1) \o <<<<bi, ti, ti_next>>, <<bi, ti_next, bi_next>>>>

\* the squared distance of outer point i from the hole's centre
\* (0, rect_height): points 0 and 1 are the corners (-half_w, 0) and
\* (half_w, 0), every other point lies at circle_radius = half_w from it
OuterDist2(i) ==
    IF i \in {0, 1} THEN half_w * half_w + rect_height * rect_height
    ELSE half_w * half_w

\* lines 153-154, 170: what "dist_o < dist_h" can be.  With hole_radius = 0
\* every hole point is the centre and both distances are exact; otherwise
\* the outcome depends on the rounded trigonometry and is left open on the
\* bottom cap; the top cap has the same x and y, so the same outcomes.
CloserOutcomes ==
    IF hole_radius = 0
    THEN {OuterDist2((oi + 1) % NOuter) < OuterDist2(oi % NOuter)}
    ELSE IF kpc = "top" THEN {ring_path[oi + hi + 1] = "o"}
    ELSE BOOLEAN

\* lines 156-179: the ring that advances
RingChoice(closer) ==
    IF oi >= NOuter THEN "h"
    ELSE IF hi >= NHolePts THEN "o"
    ELSE IF closer THEN "o"
    ELSE "h"

\* lines 147-179: the face of one iteration
RingFace(choice, is_top, outer_start, hole_start) ==
    LET o_curr == outer_start + (oi % NOuter)
        o_next == outer_start + ((oi + 1) % NOuter)
        h_curr == hole_start + (hi % NHolePts)
        h_next == hole_start + ((hi + 1) % NHolePts)
    IN IF choice = "o"
       THEN IF is_top THEN <<o_curr, o_next, h_curr>>
            ELSE <<o_curr, h_curr, o_next>>
       ELSE IF is_top THEN <<o_curr, h_next, h_curr>>
            ELSE <<o_curr, h_curr, h_next>>

\* the ring sizes tried: the code's, and small ones
NArc == 32
ArcCounts(hole_dia_mm) ==
    IF hole_dia_mm = 0 THEN (3..MaxArc) \cup {NArc} ELSE 3..MaxArc

InitLoop ==
    /\ \E w \in LoopWidths, l \in LoopLengths, d \in HoleDias :
          /\ half_w = HalfW(w)
          /\ rect_height = RectHeight(w, l)
          /\ hole_radius = HoleRadius(w, d)
          /\ n_arc \in ArcCounts(d)
    /\ faces = <<>>
    /\ oi = 0 /\ hi = 0
    /\ ring_path = <<>>
    /\ kpc = "walls"
    /\ IdleRect /\ IdleCodec /\ IdleBoard /\ IdleLut /\ IdleConv /\ IdlePkg
    /\ IdleExt /\ IdleVec /\ IdleGrp /\ IdleRing /\ IdleMode /\ IdlePrv
    /\ IdleAtt

\* lines 116-132
SideWalls ==
    /\ kpc = "walls"
    /\ faces' = OuterWalls(NOuter) \o HoleWalls(NHolePts)
    /\ kpc' = "bottom"
    /\ UNCHANGED <<n_arc, hole_radius, half_w, rect_height, oi, hi, ring_path>>
    /\ UNCHANGED notLoop

\* lines 146-179: one iteration of connect_rings; lines 185-200: after the
\* last iteration of the bottom cap the top cap begins, after the last of
\* the top cap the mesh is built
StitchStep ==
    /\ kpc \in {"bottom", "top"}
    /\ \E closer \in CloserOutcomes :
          LET choice == RingChoice(closer)
              face == IF kpc = "top"
                      THEN RingFace(choice, TRUE, TopOuterStart, TopHoleStart)
                      ELSE RingFace(choice, FALSE, BottomOuterStart,
                                    BottomHoleStart)
              last == oi + hi + 1 = NOuter + NHolePts
          IN /\ faces' = Append(faces, face)
             /\ ring_path' = IF kpc = "bottom" THEN Append(ring_path, choice)
                             ELSE ring_path
             /\ oi' = IF last THEN 0 ELSE IF choice = "o" THEN oi + 1 ELSE oi
             /\ hi' = IF last THEN 0 ELSE IF choice = "h" THEN hi + 1 ELSE hi
             /\ kpc' = IF ~last THEN kpc
                       ELSE IF kpc = "bottom" THEN "top" ELSE "done"
    /\ UNCHANGED <<n_arc, hole_radius, half_w, rect_height>>
    /\ UNCHANGED notLoop

NextLoop == SideWalls \/ StitchStep

SpecLoop == InitLoop /\ [][NextLoop]_vars

(***************************************************************************)
(* create_vector_mesh (converter.py) on one layer group.  A mask is        *)
(* mask[y][x] over the image; a contour polygon runs through pixel         *)
(* centres and is kept as its bounding box: "rect" for an outer contour,   *)
(* "oct" for the contour of a hole, which runs through the foreground      *)
(* pixels around the hole and so cuts the four corners of its box.  Areas  *)
(* are in thousandths of a square pixel.                                   *)
(***************************************************************************)
\* the margin of background around the outer square
Margin == 2
\* the walls around the hole are at least as thick as the 3 x 3 kernel, so
\* the opening leaves them in place
MinWall == 3
MinSide == 7

\* a square of n x n pixels with a hole of h x h pixels, the hole's first
\* pixel at (ox, oy) of the square
SquareWithHole(n, h, ox, oy) ==
    [yy \in 0..(n + 2 * Margin - 1) |-> [xx \in 0..(n + 2 * Margin - 1) |->
        /\ xx >= Margin /\ xx < Margin + n /\ yy >= Margin /\ yy < Margin + n
        /\ ~(/\ xx >= Margin + ox /\ xx < Margin + ox + h
             /\ yy >= Margin + oy /\ yy < Margin + oy + h)]]

InMask(m, yy, xx) == yy \in DOMAIN m /\ xx \in DOMAIN m[yy]
Near(yy, xx) == {<<yy + dy, xx + dx>> : dy \in {0 - 1, 0, 1}, dx \in {0 - 1, 0, 1}}

\* cv2.dilate / cv2.erode with the 3 x 3 kernel of ones (line 327); pixels
\* beyond the image do not count
Dilate(m) ==
    [yy \in DOMAIN m |-> [xx \in DOMAIN m[yy] |->
        \E p \in Near(yy, xx) : InMask(m, p[1], p[2]) /\ m[p[1]][p[2]]]]
Erode(m) ==
    [yy \in DOMAIN m |-> [xx \in DOMAIN m[yy] |->
        \A p \in Near(yy, xx) : InMask(m, p[1], p[2]) => m[p[1]][p[2]]]]
\* lines 328-329: MORPH_CLOSE, then MORPH_OPEN
MorphClose(m) == Erode(Dilate(m))
MorphOpen(m) == Dilate(Erode(m))
Cleanup(m) == MorphOpen(MorphClose(m))

Foreground(m) == {<<yy, xx>> \in (DOMAIN m) \X (DOMAIN m[0]) : m[yy][xx]}
Box(cells) ==
    [x0 |-> Min({p[2] : p \in cells}), x1 |-> MaxOf({p[2] : p \in cells}),
     y0 |-> Min({p[1] : p \in cells}), y1 |-> MaxOf({p[1] : p \in cells})]
\* the background pixels the foreground encloses
HolePixels(m) ==
    IF Foreground(m) = {} THEN {}
    ELSE LET b == Box(Foreground(m))
         IN {<<yy, xx>> \in (b.y0..b.y1) \X (b.x0..b.x1) : ~m[yy][xx]}

\* the mask is a filled rectangle less at most one rectangle inside it, the
\* case the contours below are written for
RectLessRect(m) ==
    /\ Foreground(m) # {}
    /\ HolePixels(m) # {} =>
          LET hb == Box(HolePixels(m))
              b == Box(Foreground(m))
          IN /\ HolePixels(m) = (hb.y0..hb.y1) \X (hb.x0..hb.x1)
             /\ hb.x0 > b.x0 /\ hb.x1 < b.x1 /\ hb.y0 > b.y0 /\ hb.y1 < b.y1

Poly(kind, b, is_hole, buf) ==
    [kind |-> kind, x0 |-> b.x0, y0 |-> b.y0, x1 |-> b.x1, y1 |-> b.y1,
     is_hole |-> is_hole, buf |-> buf]

\* lines 332-336 with RETR_TREE: the outer contour through the outermost
\* foreground pixels, and for an enclosed hole the contour through the
\* foreground pixels next to it, whose parent is the outer contour
FindContours(m) ==
    IF Foreground(m) = {} THEN <<>>
    ELSE LET outer == Poly("rect", Box(Foreground(m)), FALSE, 0)
         IN IF HolePixels(m) = {} THEN <<outer>>
            ELSE LET hb == Box(HolePixels(m))
                     around == [x0 |-> hb.x0 - 1, x1 |-> hb.x1 + 1,
                                y0 |-> hb.y0 - 1, y1 |-> hb.y1 + 1]
                 IN <<outer, Poly("oct", around, TRUE, 0)>>

\* 1000 * sqrt(2) and, per unit of squared radius, the area of the 64-gon
\* that buffer() puts for a disc
Sqrt2Milli == 1414
DiscMilli == 3137

PolyW(p) == p.x1 - p.x0
PolyH(p) == p.y1 - p.y0
\* cv2.contourArea / Polygon.area before the buffer
PlainArea(p) ==
    IF p.kind = "rect" THEN 1000 * PolyW(p) * PolyH(p)
    ELSE 1000 * PolyW(p) * PolyH(p) - 2000
PlainPerimeter(p) ==
    IF p.kind = "rect" THEN 2000 * (PolyW(p) + PolyH(p))
    ELSE 2000 * (PolyW(p) - 2 + PolyH(p) - 2) + 4 * Sqrt2Milli
\* the area of a convex polygon grown by buf with round joins
Area(p) ==
    IF p.buf = 0 THEN PlainArea(p)
    ELSE PlainArea(p) + p.buf * PlainPerimeter(p) + DiscMilli * p.buf * p.buf

BufferNone(p) == p
\* line 372: poly = poly.buffer(6.0), for outer and hole contours alike
Buffer(p) == [p EXCEPT !.buf = 6]

\* lines 346-381: the contours that become polygons
KeptContours(contours) ==
    SelectSeq(contours, LAMBDA p : PlainArea(p) >= 4000)
Polygons(contours) ==
    [k \in DOMAIN KeptContours(contours) |-> Buffer(KeptContours(contours)[k])]

\* lines 383-396: the area of the union of the outer polygons less the hole
\* polygons, for at most one outer polygon with at most one hole polygon
\* inside it
MergedArea(polys) ==
    LET outers == SelectSeq(polys, LAMBDA p : ~p.is_hole)
        holes == SelectSeq(polys, LAMBDA p : p.is_hole)
    IN IF outers = <<>> THEN 0
       ELSE IF holes = <<>> THEN Area(outers[1])
       ELSE Area(outers[1]) - Area(holes[1])

InitVec ==
    /\ \E n \in MinSide..MaxSide : \E h \in 1..(n - 2 * MinWall) :
          \E ox, oy \in MinWall..(n - h - MinWall) :
              /\ layer_mask = SquareWithHole(n, h, ox, oy)
              /\ synthetic = [n |-> n, h |-> h]
    /\ mask_uint8 = <<>>
    /\ polygons = <<>>
    /\ merged_area = 0
    /\ mpc = "cleanup"
    /\ IdleRect /\ IdleCodec /\ IdleBoard /\ IdleLut /\ IdleConv /\ IdlePkg
    /\ IdleExt /\ IdleLoop /\ IdleGrp /\ IdleRing /\ IdleMode /\ IdlePrv
    /\ IdleAtt

\* lines 326-330
MorphCleanup ==
    /\ mpc = "cleanup"
    /\ mask_uint8' = Cleanup(layer_mask)
    /\ mpc' = "contours"
    /\ UNCHANGED <<layer_mask, synthetic, polygons, merged_area>>
    /\ UNCHANGED notVec

\* lines 332-381
MakePolygons ==
    /\ mpc = "contours"
    /\ polygons' = Polygons(FindContours(mask_uint8))
    /\ mpc' = "merge"
    /\ UNCHANGED <<layer_mask, synthetic, mask_uint8, merged_area>>
    /\ UNCHANGED notVec

\* lines 383-402
MergePolygons ==
    /\ mpc = "merge"
    /\ merged_area' = MergedArea(polygons)
    /\ mpc' = "done"
    /\ UNCHANGED <<layer_mask, synthetic, mask_uint8, polygons>>
    /\ UNCHANGED notVec

NextVec == MorphCleanup \/ MakePolygons \/ MergePolygons

SpecVec == InitVec /\ [][NextVec]_vars

(***************************************************************************)
(* Vertical layer compression: create_vector_mesh (core/converter.py       *)
(* 291-315) and HighFidelityMesher._merge_layers_with_dilation             *)
(* (core/mesh_generators.py 240-284).  The two loops differ only in the    *)
(* dilation of the mask.  A layer is one row of LayerW voxels.             *)
(***************************************************************************)
\* None
NoMask == <<>>
GrpMaterials == {0, 1}

\* a layer of one row
LayerOf(row) == [yy \in {0} |-> row]
GrpLayers == {LayerOf(row) : row \in [0..(LayerW - 1) -> GrpMaterials]}
Matrices(n) == [0..(n - 1) -> GrpLayers]

\* curr_mask = (voxel_matrix[z] == mat_id)
CurrMask(layer, mat) ==
    [yy \in DOMAIN layer |-> [xx \in DOMAIN layer[yy] |-> layer[yy][xx] = mat]]
\* np.any
AnyTrue(m) == \E yy \in DOMAIN m : \E xx \in DOMAIN m[yy] : m[yy][xx]

\* the mask a group is compared with and stores: cv2.dilate with the 3 x 3
\* kernel in the high-fidelity mesher, the mask itself in the vector mesher
StoredMask(m, dilating) == IF dilating THEN Dilate(m) ELSE m

\* np.array_equal
ArrayEqualAlways(a, b) == TRUE
ArrayEqual(a, b) == a = b

Group(s, e, m) == [start_z |-> s, end_z |-> e, mask |-> m]

InitGrp ==
    /\ \E n \in 1..MaxLayers : grp_matrix \in Matrices(n)
    /\ grp_mat_id \in GrpMaterials
    /\ grp_dilate \in BOOLEAN
    /\ layer_groups = <<>>
    /\ prev_mask = NoMask
    /\ start_z = 0
    /\ gz = 0
    /\ gpc = "loop"
    /\ IdleRect /\ IdleCodec /\ IdleBoard /\ IdleLut /\ IdleConv /\ IdlePkg
    /\ IdleExt /\ IdleLoop /\ IdleVec /\ IdleRing /\ IdleMode /\ IdlePrv
    /\ IdleAtt

GrpDepth == Cardinality(DOMAIN grp_matrix)

\* one iteration of `for z in range(voxel_matrix.shape[0])`
GroupLayer ==
    /\ gpc = "loop"
    /\ gz < GrpDepth
    /\ LET curr_mask == CurrMask(grp_matrix[gz], grp_mat_id)
           stored == StoredMask(curr_mask, grp_dilate)
       IN IF ~AnyTrue(curr_mask)
          THEN IF prev_mask # NoMask /\ AnyTrue(prev_mask)
               THEN /\ layer_groups' =
                          Append(layer_groups, Group(start_z, gz - 1, prev_mask))
                    /\ prev_mask' = NoMask
                    /\ UNCHANGED start_z
               ELSE UNCHANGED <<layer_groups, prev_mask, start_z>>
          ELSE IF prev_mask = NoMask
               THEN /\ start_z' = gz
                    /\ prev_mask' = stored
                    /\ UNCHANGED layer_groups
               ELSE IF ArrayEqual(stored, prev_mask)
                    THEN UNCHANGED <<layer_groups, prev_mask, start_z>>
                    ELSE /\ layer_groups' =
                               Append(layer_groups,
                                      Group(start_z, gz - 1, prev_mask))
                         /\ start_z' = gz
                         /\ prev_mask' = stored
    /\ gz' = gz + 1
    /\ UNCHANGED <<grp_matrix, grp_mat_id, grp_dilate, gpc>>
    /\ UNCHANGED notGrp

\* after the loop: the open group is closed at the last layer
CloseLastGroup ==
    /\ gpc = "loop"
    /\ gz = GrpDepth
    /\ layer_groups' =
          IF prev_mask # NoMask /\ AnyTrue(prev_mask)
          THEN Append(layer_groups, Group(start_z, GrpDepth - 1, prev_mask))
          ELSE layer_groups
    /\ gpc' = "done"
    /\ UNCHANGED <<grp_matrix, grp_mat_id, grp_dilate, prev_mask, start_z, gz>>
    /\ UNCHANGED notGrp

NextGrp == GroupLayer \/ CloseLastGroup

SpecGrp == InitGrp /\ [][NextGrp]_vars

(***************************************************************************)
(* connect_rings (core/converter.py 136-188) on its own: two rings of any  *)
(* size, every outcome of the comparison dist_o < dist_h.  Ring points are *)
(* kept as <<ring, position>>.                                             *)
(***************************************************************************)
OuterPoint(i) == <<"o", i % n_o>>
HolePoint(i) == <<"h", i % n_h>>

\* the ring the comparison alone would advance
StepChoiceUnforced(o_done, h_done, closer) == IF closer THEN "o" ELSE "h"
\* lines 159-186: the branch taken, o_done being oi >= n_o and h_done being
\* hi >= n_h
StepChoice(o_done, h_done, closer) ==
    IF o_done THEN "h"
    ELSE IF h_done THEN "o"
    ELSE IF closer THEN "o"
    ELSE "h"

\* lines 151-186: the face appended by the branch
StepFace(choice) ==
    LET o_curr == OuterPoint(ring_oi)
        o_next == OuterPoint(ring_oi + 1)
        h_curr == HolePoint(ring_hi)
        h_next == HolePoint(ring_hi + 1)
    IN IF choice = "o"
       THEN IF ring_is_top THEN <<o_curr, o_next, h_curr>>
            ELSE <<o_curr, h_curr, o_next>>
       ELSE IF ring_is_top THEN <<o_curr, h_next, h_curr>>
            ELSE <<o_curr, h_curr, h_next>>

InitRing ==
    /\ n_o \in 1..MaxRing
    /\ n_h \in 1..MaxRing
    /\ ring_is_top \in BOOLEAN
    /\ ring_oi = 0 /\ ring_hi = 0
    /\ ring_step = 0
    /\ ring_faces = <<>>
    /\ ring_trace = <<>>
    /\ qpc = "loop"
    /\ IdleRect /\ IdleCodec /\ IdleBoard /\ IdleLut /\ IdleConv /\ IdlePkg
    /\ IdleExt /\ IdleLoop /\ IdleVec /\ IdleGrp /\ IdleMode /\ IdlePrv
    /\ IdleAtt

\* one iteration of `for _ in range(total_steps)`
RingStep ==
    /\ qpc = "loop"
    /\ ring_step < n_o + n_h
    /\ \E closer \in BOOLEAN :
          LET choice == StepChoice(ring_oi >= n_o, ring_hi >= n_h, closer)
          IN /\ ring_faces' = Append(ring_faces, StepFace(choice))
             /\ ring_trace' = Append(ring_trace, choice)
             /\ ring_oi' = IF choice = "o" THEN ring_oi + 1 ELSE ring_oi
             /\ ring_hi' = IF choice = "h" THEN ring_hi + 1 ELSE ring_hi
    /\ ring_step' = ring_step + 1
    /\ UNCHANGED <<n_o, n_h, ring_is_top, qpc>>
    /\ UNCHANGED notRing

\* line 188: return ring_faces
RingReturn ==
    /\ qpc = "loop"
    /\ ring_step = n_o + n_h
    /\ qpc' = "done"
    /\ UNCHANGED <<n_o, n_h, ring_is_top, ring_oi, ring_hi, ring_step,
                   ring_faces, ring_trace>>
    /\ UNCHANGED notRing

NextRing == RingStep \/ RingReturn

SpecRing == InitRing /\ [][NextRing]_vars

(***************************************************************************)
(* Modelling-mode resolution: convert_image_to_3d (converter.py 718-736,   *)
(* 999-1004), create_woodblock_mesh (433-438) and get_mesher               *)
(* (mesh_generators.py 289-316).  Every test on the mode is `marker in     *)
(* str(mode).lower()`, so a mode string is kept as the set of the markers  *)
(* it contains; the Chinese markers are written zh:<meaning>.              *)
(***************************************************************************)
ModeMarkers ==
    {"vector", "zh:vector", "woodblock", "zh:woodblock",
     "high-fidelity", "zh:high-fidelity", "pixel", "zh:pixel"}
\* the two choices of the modelling radio (layout.py 323-328), lower-cased
HighFidelityChoice == {"high-fidelity", "zh:high-fidelity"}
PixelArtChoice == {"pixel", "zh:pixel"}

\* lines 720-721
WantsVector(m) == "vector" \in m \/ "zh:vector" \in m
WantsWoodblock(m) == "woodblock" \in m \/ "zh:woodblock" \in m

\* the flags without the fallback of lines 726-729
ResolveNoFallback(m, available) ==
    [vector |-> WantsVector(m), woodblock |-> WantsWoodblock(m)]
\* lines 720-736: <<use_vector_mode, use_woodblock_mode>> after the block
Resolve(m, available) ==
    IF WantsWoodblock(m) /\ ~available
    THEN [vector |-> TRUE, woodblock |-> FALSE]
    ELSE [vector |-> WantsVector(m), woodblock |-> WantsWoodblock(m)]

\* lines 999-1004
CreatorOf(vector, woodblock) ==
    IF woodblock THEN "woodblock"
    ELSE IF vector THEN "vector"
    ELSE "slab"

\* lines 436-438: create_woodblock_mesh hands over to create_vector_mesh
\* when the library is missing
MesherRun(creator, available) ==
    IF creator = "woodblock" /\ ~available THEN "vector" ELSE creator

\* mesh_generators.py 302-316
GetMesherDefaultPixel(m) ==
    IF "high-fidelity" \in m \/ "zh:high-fidelity" \in m
    THEN "HighFidelityMesher"
    ELSE "VoxelMesher"
GetMesher(m) ==
    IF "high-fidelity" \in m \/ "zh:high-fidelity" \in m
    THEN "HighFidelityMesher"
    ELSE IF "pixel" \in m \/ "zh:pixel" \in m
    THEN "VoxelMesher"
    ELSE "HighFidelityMesher"

InitMode ==
    /\ modeling_mode \in SUBSET ModeMarkers
    /\ woodblock_available \in BOOLEAN
    /\ use_vector_mode = FALSE /\ use_woodblock_mode = FALSE
    /\ mesh_creator = "" /\ ran_mesher = "" /\ factory_mesher = ""
    /\ mdpc = "normalize"
    /\ IdleRect /\ IdleCodec /\ IdleBoard /\ IdleLut /\ IdleConv /\ IdlePkg
    /\ IdleExt /\ IdleLoop /\ IdleVec /\ IdleGrp /\ IdleRing /\ IdlePrv
    /\ IdleAtt

\* lines 718-736
NormalizeMode ==
    /\ mdpc = "normalize"
    /\ use_vector_mode' = Resolve(modeling_mode, woodblock_available).vector
    /\ use_woodblock_mode' =
          Resolve(modeling_mode, woodblock_available).woodblock
    /\ mdpc' = "select"
    /\ UNCHANGED <<modeling_mode, woodblock_available, mesh_creator,
                   ran_mesher, factory_mesher>>
    /\ UNCHANGED notMode

\* lines 999-1004
SelectCreator ==
    /\ mdpc = "select"
    /\ mesh_creator' = CreatorOf(use_vector_mode, use_woodblock_mode)
    /\ mdpc' = "mesh"
    /\ UNCHANGED <<modeling_mode, woodblock_available, use_vector_mode,
                   use_woodblock_mode, ran_mesher, factory_mesher>>
    /\ UNCHANGED notMode

\* lines 1008-1009: mesh_creator(full_matrix, mat_id, target_h)
RunCreator ==
    /\ mdpc = "mesh"
    /\ ran_mesher' = MesherRun(mesh_creator, woodblock_available)
    /\ mdpc' = "done"
    /\ UNCHANGED <<modeling_mode, woodblock_available, use_vector_mode,
                   use_woodblock_mode, mesh_creator, factory_mesher>>
    /\ UNCHANGED notMode

\* a call of the factory on the same mode string
CallGetMesher ==
    /\ mdpc # "idle"
    /\ factory_mesher = ""
    /\ factory_mesher' = GetMesher(modeling_mode)
    /\ UNCHANGED <<modeling_mode, woodblock_available, use_vector_mode,
                   use_woodblock_mode, mesh_creator, ran_mesher, mdpc>>
    /\ UNCHANGED notMode

NextMode == NormalizeMode \/ SelectCreator \/ RunCreator \/ CallGetMesher

SpecMode == InitMode /\ [][NextMode]_vars

(***************************************************************************)
(* The preview of convert_image_to_3d (core/converter.py 1046-1101) and    *)
(* create_preview_mesh (613-704).  A mesh is kept as the pixel grid it was *)
(* built over.                                                             *)
(***************************************************************************)
DisableThreshold == 2000000
SimplifyThreshold == 500000
TargetPixels == 300000
MinScale == 2
MaxScale == 16

NoGrid == <<>>
NoPreview == <<>>

\* int(np.sqrt(total_pixels / TARGET_PIXELS)), as far as the clamp looks
IntSqrtRatio(total) ==
    MaxOf({k \in 0..(MaxScale + 1) : k * k * TargetPixels <= total})

ScaleFactorUnclamped(total) == IntSqrtRatio(total)
\* lines 630-631
ScaleFactor(total) == Max(MinScale, Min({IntSqrtRatio(total), MaxScale}))

\* lines 638-639 and 655: the grid the cubes are built over
PreviewGrid(w, h) ==
    IF w * h > SimplifyThreshold
    THEN [width |-> w \div ScaleFactor(w * h),
          height |-> h \div ScaleFactor(w * h),
          factor |-> ScaleFactor(w * h)]
    ELSE [width |-> w, height |-> h, factor |-> 1]

\* the widths the converter's slider allows reach 4000 pixels
PreviewWidths == {500, 501, 707, 1000, 1001, 4000}
PreviewHeights == {126, 1000, 1001, 2000, 4000}

\* whether the resized mask still has a solid pixel: INTER_NEAREST keeps one
\* pixel in factor x factor (lines 647-651)
SolidAfter(solid, factor) ==
    IF solid = "all" THEN {TRUE}
    ELSE IF solid = "none" THEN {FALSE}
    ELSE IF factor = 1 THEN {TRUE} ELSE BOOLEAN

InitPrv ==
    /\ prev_width \in PreviewWidths
    /\ prev_height \in PreviewHeights
    /\ prev_solid \in {"none", "sparse", "all"}
    /\ exported = NoGrid
    /\ preview_mesh = NoPreview
    /\ preview_note = ""
    /\ ppc = "export"
    /\ IdleRect /\ IdleCodec /\ IdleBoard /\ IdleLut /\ IdleConv /\ IdlePkg
    /\ IdleExt /\ IdleLoop /\ IdleVec /\ IdleGrp /\ IdleRing /\ IdleMode
    /\ IdleAtt

\* line 1048: scene.export(out_path), the scene built over the full matrix
ExportFullScene ==
    /\ ppc = "export"
    /\ exported' = [width |-> prev_width, height |-> prev_height]
    /\ ppc' = "preview"
    /\ UNCHANGED <<prev_width, prev_height, prev_solid, preview_mesh,
                   preview_note>>
    /\ UNCHANGED notPrv

\* line 1050 with lines 613-704
CreatePreviewMesh ==
    /\ ppc = "preview"
    /\ IF prev_width * prev_height > DisableThreshold
       THEN preview_mesh' = NoPreview
       ELSE \E grid \in {PreviewGrid(prev_width, prev_height)} :
               \E any_solid \in SolidAfter(prev_solid, grid.factor) :
                   preview_mesh' = IF any_solid THEN grid ELSE NoPreview
    /\ ppc' = "message"
    /\ UNCHANGED <<prev_width, prev_height, prev_solid, exported,
                   preview_note>>
    /\ UNCHANGED notPrv

\* lines 1081-1099
ReportPreview ==
    /\ ppc = "message"
    /\ preview_note' =
          IF preview_mesh = NoPreview /\ prev_width * prev_height > DisableThreshold
          THEN "disabled"
          ELSE IF preview_mesh # NoPreview
                  /\ prev_width * prev_height > SimplifyThreshold
          THEN "simplified"
          ELSE "none"
    /\ ppc' = "returned"
    /\ UNCHANGED <<prev_width, prev_height, prev_solid, exported,
                   preview_mesh>>
    /\ UNCHANGED notPrv

NextPrv == ExportFullScene \/ CreatePreviewMesh \/ ReportPreview

SpecPrv == InitPrv /\ [][NextPrv]_vars

(***************************************************************************)
(* The keychain loop's attach point in convert_image_to_3d                 *)
(* (core/converter.py 753-767, 873-923, 989-992, 1018-1030), a loop being  *)
(* asked for.  Lengths are in hundredths of a millimetre.                  *)
(***************************************************************************)
\* line 755
PixelsPerMm == 10
NoPos == <<>>
NoInfo == <<>>

\* lines 756 and 764
ScaleNozzleOnly(vector) == NozzleWidth
PixelToMmScale(vector) == IF vector THEN 100 \div PixelsPerMm ELSE NozzleWidth

AttClamp(v, n) == Max(0, Min({n - 1, v}))
SolidRowsOf(m) == {r \in DOMAIN m : \E c \in DOMAIN m[r] : m[r][c]}
SolidColsIn(m, r) == {c \in DOMAIN m[r] : m[r][c]}
SolidRowsIn(m, c) == {r \in DOMAIN m : m[r][c]}
\* np.argmin(np.abs(values - v)) over ascending values: the first nearest
NearestTo(S, v) ==
    Min({s \in S : \A t \in S :
            (IF s >= v THEN s - v ELSE v - s) <= (IF t >= v THEN t - v ELSE v - t)})
RECURSIVE SumOfSet(_)
SumOfSet(S) ==
    IF S = {} THEN 0
    ELSE LET v == CHOOSE u \in S : TRUE IN v + SumOfSet(S \ {v})
\* int(np.mean(values))
MeanOf(S) == SumOfSet(S) \div Cardinality(S)

\* lines 876-904: <<attach_col, top_row>>
AttachPoint(m, pos) ==
    LET target_h == Cardinality(DOMAIN m)
        target_w == Cardinality(DOMAIN m[0])
        first_row == Min(SolidRowsOf(m))
    IN IF pos # NoPos
       THEN LET col == AttClamp(pos[1], target_w)
                row == AttClamp(pos[2], target_h)
            IN IF SolidRowsIn(m, col) # {}
               THEN <<col, NearestTo(SolidRowsIn(m, col), row)>>
               ELSE <<AttClamp(NearestTo(SolidColsIn(m, first_row), col),
                               target_w),
                      first_row>>
       ELSE <<AttClamp(MeanOf(SolidColsIn(m, first_row)), target_w), first_row>>

LoopClicks == {NoPos, <<0, 0>>, <<2, 1>>, <<7, 7>>}

InitAtt ==
    /\ high_res \in BOOLEAN
    /\ mask_solid \in AllMasks(AttachRows, AttachCols)
    /\ loop_pos \in LoopClicks
    /\ pixel_to_mm_scale = 0
    /\ attach_col = 0 /\ top_row = 0
    /\ attach_info = NoInfo
    /\ transform_xy = 0
    /\ loop_origin = <<>>
    /\ apc = "scale"
    /\ IdleRect /\ IdleCodec /\ IdleBoard /\ IdleLut /\ IdleConv /\ IdlePkg
    /\ IdleExt /\ IdleLoop /\ IdleVec /\ IdleGrp /\ IdleRing /\ IdleMode
    /\ IdlePrv

\* lines 753-767
ChooseScale ==
    /\ apc = "scale"
    /\ pixel_to_mm_scale' = PixelToMmScale(high_res)
    /\ apc' = "attach"
    /\ UNCHANGED <<high_res, mask_solid, loop_pos, attach_col, top_row,
                   attach_info, transform_xy, loop_origin>>
    /\ UNCHANGED notAtt

\* lines 873-923
PlaceAttach ==
    /\ apc = "attach"
    /\ IF SolidRowsOf(mask_solid) = {}
       THEN UNCHANGED <<attach_col, top_row, attach_info>>
       ELSE \E at \in {AttachPoint(mask_solid, loop_pos)} :
               /\ attach_col' = at[1]
               /\ top_row' = at[2]
               /\ attach_info' =
                     [attach_x_mm |-> at[1] * NozzleWidth,
                      attach_y_mm |->
                          (Cardinality(DOMAIN mask_solid) - 1 - at[2])
                              * NozzleWidth]
    /\ apc' = "transform"
    /\ UNCHANGED <<high_res, mask_solid, loop_pos, pixel_to_mm_scale,
                   transform_xy, loop_origin>>
    /\ UNCHANGED notAtt

\* lines 989-992, and the loop of lines 1018-1030 with lines 203-204 of
\* create_keychain_loop, which moves the loop to (attach_x_mm, attach_y_mm)
BuildTransform ==
    /\ apc = "transform"
    /\ transform_xy' = pixel_to_mm_scale
    /\ loop_origin' = IF attach_info = NoInfo THEN <<>>
                      ELSE <<attach_info.attach_x_mm, attach_info.attach_y_mm>>
    /\ apc' = "done"
    /\ UNCHANGED <<high_res, mask_solid, loop_pos, pixel_to_mm_scale,
                   attach_col, top_row, attach_info>>
    /\ UNCHANGED notAtt

NextAtt == ChooseScale \/ PlaceAttach \/ BuildTransform

SpecAtt == InitAtt /\ [][NextAtt]_vars

(***************************************************************************)
(* Claims.                                                                 *)
(***************************************************************************)

\* rectangle k (1-based position in the result) holds cell (yy, xx)
InRect(r, yy, xx) == r[1] <= xx /\ xx < r[3] /\ r[2] <= yy /\ yy < r[4]

RectsHolding(yy, xx) ==
    {k \in 1..Len(rectangles) : InRect(rectangles[k], yy, xx)}

\* C1: when _greedy_rect_merge returns, every rectangle is a non-empty box
\* inside the mask, every true cell of the mask lies in exactly one
\* rectangle and no false cell lies in any rectangle (so no two rectangles
\* overlap).
C1_ExactCover ==
    rpc = "done" =>
        /\ \A k \in 1..Len(rectangles) :
              LET r == rectangles[k] IN
                 /\ 0 <= r[1] /\ r[1] < r[3] /\ r[3] <= MaskW(mask)
                 /\ 0 <= r[2] /\ r[2] < r[4] /\ r[4] <= MaskH(mask)
        /\ \A yy \in DOMAIN mask : \A xx \in DOMAIN mask[yy] :
              Cardinality(RectsHolding(yy, xx)) = (IF mask[yy][xx] THEN 1 ELSE 0)

\* a returned cover of a mask with a hole: a false cell with true cells on
\* its four sides, and at least three rectangles
C1_Witness ==
    /\ rpc = "done"
    /\ Len(rectangles) >= 3
    /\ \E yy \in DOMAIN mask : \E xx \in DOMAIN mask[yy] :
          /\ ~mask[yy][xx]
          /\ yy >= 1 /\ yy + 1 < MaskH(mask) /\ xx >= 1 /\ xx + 1 < MaskW(mask)
          /\ mask[yy-1][xx] /\ mask[yy+1][xx] /\ mask[yy][xx-1] /\ mask[yy][xx+1]

\* C10: a mask whose every cell is true yields exactly one rectangle, the
\* whole mask (0,0)-(w,h).
C10_SolidOneRect ==
    (rpc = "done" /\ \A yy \in DOMAIN mask : \A xx \in DOMAIN mask[yy] : mask[yy][xx])
        => rectangles = << <<0, 0, MaskW(mask), MaskH(mask)>> >>

\* the solid SolidSide x SolidSide mask has been merged into one rectangle
C10_Witness ==
    /\ rpc = "done"
    /\ mask = SolidMask(SolidSide, SolidSide)
    /\ rectangles = << <<0, 0, SolidSide, SolidSide>> >>

\* the stack read as base-4 digits, most significant first
RECURSIVE Decode(_)
Decode(s) ==
    IF s = <<>> THEN 0 ELSE Decode(SubSeq(s, 1, Len(s) - 1)) * Base + s[Len(s)]

RECURSIVE Pow(_, _)
Pow(b, e) == IF e = 0 THEN 1 ELSE b * Pow(b, e - 1)

\* C2: the stack the loop produces for index i decodes back to i, for every
\* i in [0, 4^5).
C2_RoundTrip ==
    cpc = "stack" => (Len(stack) = StackLen /\ Decode(stack) = ci)

\* an index whose digits are not a palindrome has been encoded
C2_Witness ==
    cpc = "stack" /\ ci = 27 /\ stack = <<0, 0, 1, 2, 3>>

\* C3: the stack of index i is its base-4 representation on exactly 5
\* digits, most significant first; index 0 gives five 0s and index 1023
\* five 3s.
C3_BaseDigits ==
    cpc = "stack" =>
        /\ Len(stack) = StackLen
        /\ \A k \in 0..(StackLen - 1) :
              /\ stack[k + 1] = (ci \div Pow(Base, StackLen - 1 - k)) % Base
              /\ stack[k + 1] \in 0..(Base - 1)
        /\ (ci = 0 => stack = <<0, 0, 0, 0, 0>>)
        /\ (ci = NumStacks - 1 => stack = <<3, 3, 3, 3, 3>>)

\* the last index has been encoded
C3_Witness ==
    cpc = "stack" /\ ci = NumStacks - 1 /\ stack = <<3, 3, 3, 3, 3>>

BoardBuilt == bpc \in {"board", "extracted", "paired"}

\* the label of the n-th click names the colour of the material the board
\* holds in the corner that click is for
CornerMatches(n) ==
    LET lab == NextHint(color_mode, n - 1)
        conf == ColorSystemGet(color_mode)
        cell == CornerCell(ClickPosition(n))
    IN /\ lab.pos = ClickPosition(n)
       /\ \A z \in 0..(ColorLayers - 1) :
             SlotName(conf, full_matrix[cell][z]) = lab.color

\* C7: in every colour mode, for each of the four corner positions (click
\* 1 = TL, 2 = TR, 3 = BR, 4 = BL) the material of the board's corner marker
\* is the colour the extractor's corner label for that click names.
C7_CornerColours ==
    BoardBuilt => \A n \in 1..4 : CornerMatches(n)

\* the same, in the two modes the UI offers
CornersMatchInUiModes ==
    (BoardBuilt /\ ~Contains(color_mode, "6-Color")) => \A n \in 1..4 : CornerMatches(n)

\* C8: for every data cell (row, col), the sampler fills LUT[row][col] from
\* physical cell (row+1, col+1), the board holds there, layer by layer, the
\* stack the loader pairs with entry row*32+col, and that stack is the
\* encoding of row*32+col.
C8_CellAlignment ==
    bpc = "paired" =>
        \A rc \in DataCells :
            LET i == rc[1] * 32 + rc[2]
                src == lut_pairs[i][1]
                st == lut_pairs[i][2]
            IN /\ src = <<rc[1] + 1, rc[2] + 1>>
               /\ \A z \in 0..(ColorLayers - 1) : full_matrix[src][z] = st[z + 1]
               /\ Decode(st) = i

\* the LUT is paired, and entry 1*32+2 came from physical cell (2, 3), which
\* holds the stack of 34
C8_Witness ==
    /\ bpc = "paired"
    /\ lut_pairs[34] = << <<2, 3>>, <<0, 0, 2, 0, 2>> >>
    /\ full_matrix[<<2, 3>>] = [z \in 0..4 |-> <<0, 0, 2, 0, 2>>[z + 1]]

\* C9: for any positive block and gap size in pixels the voxel matrix has
\* XY extent (32+2) * (block_px + gap_px) in each dimension, and every
\* block of the grid lies inside it.
C9_Extent ==
    bpc # "setup" =>
        /\ pixels_per_block >= 1 /\ pixels_gap >= 1
        /\ voxel_w = (32 + 2) * (pixels_per_block + pixels_gap)
        /\ voxel_h = (32 + 2) * (pixels_per_block + pixels_gap)
        /\ \A cell \in DOMAIN full_matrix :
              /\ cell[1] * (pixels_per_block + pixels_gap) + pixels_per_block <= voxel_h
              /\ cell[2] * (pixels_per_block + pixels_gap) + pixels_per_block <= voxel_w

\* a board of 11-pixel blocks and 1-pixel gaps, 408 voxels on each side
C9_Witness ==
    /\ bpc = "board"
    /\ pixels_per_block = 11 /\ pixels_gap = 1
    /\ voxel_w = 408 /\ voxel_h = 408

(***************************************************************************)
(* Colour matching against a loaded LUT.                                   *)
(***************************************************************************)
Matched == lpc = "matched"

\* the entry of the LUT file with index i is one the loader keeps
\* one of the five base-4 digits of i is 3
HoldsBlue(i) == \E w \in {1, 4, 16, 64, 256} : (i \div w) % 4 = 3

IsSurvivor(i) ==
    ~(Dist2(Flat(lut_grid, i), <<30, 100, 200>>) < 3600 /\ ~HoldsBlue(i))

SurvivorsWith(q) ==
    {i \in 0..(NumStacks - 1) : Flat(lut_grid, i) = q /\ IsSurvivor(i)}

\* st is the stack of the LUT entry with index i
IsStackOf(st, i) == Len(st) = StackLen /\ Decode(st) = i

\* C4 as stated: a query colour equal to the measured colour of an entry
\* of the LUT file is matched to exactly that entry's stack.
C4_HitReturnsEntryStack ==
    Matched =>
        \A p \in DOMAIN flat_rgb : \A i \in 0..(NumStacks - 1) :
            Flat(lut_grid, i) = flat_rgb[p] => IsStackOf(best_stacks[p], i)

\* C4, amended: a query colour equal to the measured colour of an entry
\* that survives the loader's filter is matched at distance 0 to the
\* stack of a surviving entry with that measured colour; when only one
\* surviving entry has that colour, to exactly that entry's stack.
C4_HitReturnsSurvivorStack ==
    Matched =>
        \A p \in DOMAIN flat_rgb :
            LET hits == SurvivorsWith(flat_rgb[p])
            IN hits # {} =>
                  /\ matched_rgb[p] = flat_rgb[p]
                  /\ \E j \in hits : IsStackOf(best_stacks[p], j)

C4_Witness ==
    /\ Matched
    /\ flat_rgb[1] = FarBlue
    /\ SurvivorsWith(FarBlue) = {3}
    /\ best_stacks[1] = <<0, 0, 0, 0, 3>>

\* C5: for every query colour, matched_rgb and the stack come from one
\* and the same surviving LUT entry, matched_rgb is that entry's measured
\* colour, and no surviving entry is closer to the query in Euclidean RGB
\* distance.
C5_NearestSurvivor ==
    Matched =>
        \A p \in DOMAIN flat_rgb :
            LET j == Decode(best_stacks[p])
            IN /\ Len(best_stacks[p]) = StackLen
               /\ j \in 0..(NumStacks - 1)
               /\ IsSurvivor(j)
               /\ matched_rgb[p] = Flat(lut_grid, j)
               /\ \A k \in 0..(NumStacks - 1) :
                     \/ Dist2(matched_rgb[p], flat_rgb[p])
                           <= Dist2(Flat(lut_grid, k), flat_rgb[p])
                     \/ ~IsSurvivor(k)

C5_Witness ==
    /\ Matched
    /\ flat_rgb[1] = MidBlue
    /\ matched_rgb[1] = FarBlue
    /\ SurvivorsWith(White) # {}

UniformLut == \A rc \in DataCells : lut_grid[rc] = lut_grid[<<0, 0>>]

MatrixBuilt == vpc \in {"scene", "export", "fix", "return", "returned"}
SceneBuilt == vpc \in {"export", "fix", "return", "returned"}

\* C11: in the voxel matrix of a conversion every pixel classed as
\* transparent holds -1 at every z, single- or double-sided; an image whose
\* alpha is 0 everywhere gives a matrix of -1 only and a scene without parts.
C11_TransparentIsSentinel ==
    /\ MatrixBuilt =>
          \A p \in DOMAIN mask_transparent :
              mask_transparent[p] =>
                  \A z \in DOMAIN voxel_matrix : voxel_matrix[z][p] = 0 - 1
    /\ (MatrixBuilt /\ \A p \in DOMAIN alpha_arr : alpha_arr[p] = 0) =>
          \A z \in DOMAIN voxel_matrix : \A p \in DOMAIN voxel_matrix[z] :
              voxel_matrix[z][p] = 0 - 1
    /\ (SceneBuilt /\ \A p \in DOMAIN alpha_arr : alpha_arr[p] = 0) =>
          scene = <<>>

\* a double-sided conversion of an image with a transparent and a solid
\* pixel, its matrix built
C11_Witness ==
    /\ vpc = "export"
    /\ IsDoubleSided(structure_mode)
    /\ spacer_thick = 16
    /\ mask_transparent = <<TRUE, FALSE>>
    /\ voxel_matrix[11][2] = 0
    /\ voxel_matrix[11][1] = 0 - 1

(***************************************************************************)
(* 3MF post-processing.                                                    *)
(***************************************************************************)
\* C12: running safe_fix_3mf_names twice on a package with the same name
\* list leaves the same object names as running it once.
C12_FixIdempotent ==
    Len(pkg_docs) >= 3 => ObjectNames(pkg_docs[3]) = ObjectNames(pkg_docs[2])

\* the same for packages of at most one object, where it holds
FixIdempotentWithoutAssembly ==
    (Len(pkg_docs) >= 3 /\ Len(pkg_docs[1].objects) <= 1) =>
        pkg_docs[3] = pkg_docs[2]

CanonicalName(part) ==
    IF part.kind = "loop" THEN "Keychain_Loop"
    ELSE ColorSystemGet(conv_color_mode).slots[part.mat + 1]

\* C14: after a conversion whose post-processing went through, the object
\* of every part carries the name of the material the part was built from,
\* and the loop's object the name Keychain_Loop.
C14_PartsCarryMaterialNames ==
    (vpc = "returned" /\ fix_outcome = "ok") =>
        \A k \in DOMAIN scene :
            package.doc.objects[k].name = CanonicalName(scene[k])

\* the same when every material before the last part's has a mesh
PartsNamedWhenNoMaterialIsMissing ==
    LET none_missing ==
            /\ \A k \in DOMAIN scene :
                  scene[k].kind = "material" => scene[k].mat = k - 1
            /\ loop_added => Len(scene) = 5
    IN (vpc = "returned" /\ fix_outcome = "ok" /\ none_missing) =>
          \A k \in DOMAIN scene :
              package.doc.objects[k].name = CanonicalName(scene[k])

\* a file np.load reads as the LUT array of 32 x 32 colours
IsLutArray(file) == file.readable /\ file.shape = <<32, 32, 3>>

\* the conversion has gone past the loading of the LUT
LutStepDone == vpc \notin {"idle", "load"}

\* C16: a conversion given a LUT file that is not the 32 x 32 x 3 array has
\* returned, with the corrupt-LUT reason as its message, no output path and
\* no package written.
C16_CorruptLutFails ==
    (LutStepDone /\ ~IsLutArray(lut_file)) =>
        /\ vpc = "returned"
        /\ conv_result = [returned |-> TRUE, out_path |-> "none",
                          msg |-> CorruptLutMsg]
        /\ package = NoPackage

\* the same for the files on which np.load or reshape(-1, 3) raises, where
\* it holds
CorruptLutFailsWhenLoadRaises ==
    (LutStepDone /\ LoadRaises(lut_file)) =>
        /\ vpc = "returned"
        /\ conv_result = [returned |-> TRUE, out_path |-> "none",
                          msg |-> CorruptLutMsg]
        /\ package = NoPackage

\* a file of fewer than 1024 colours ends the conversion with an exception
\* and no returned result; a file of more is converted as if it were a LUT
ShortLutRaises ==
    (LutStepDone /\ ~LoadRaises(lut_file) /\ IndexRaises(lut_file)) =>
        (vpc = "raised" /\ conv_result = NoResult /\ package = NoPackage)

\* C17: a conversion whose post-processing could not read or rewrite the
\* package does not report success, and leaves no truncated package.
C17_FixFailureSurfaced ==
    (vpc = "returned" /\ fix_outcome \in {"read_fails", "write_fails"}) =>
        /\ conv_result.msg # DoneMsg
        /\ conv_result.out_path = "none"
        /\ package.state # "truncated"

\* what the code does instead: the conversion reports success whatever the
\* post-processing did
FixFailureReportsSuccess ==
    (vpc = "returned" /\ fix_outcome # "none") =>
        (conv_result.msg = DoneMsg /\ conv_result.out_path = "3mf")

\* C15: a call of run_extraction without an image answers with the
\* missing-image reason, a call with an image and a number of corner points
\* other than 4 answers with the corner-points reason, and both leave the LUT
\* file and the collected points as they were; a call with an image and 4
\* points writes the LUT sampled from the image and reports success.
C15_ExtractionRefused ==
    [][run_extraction =>
          IF ext_state_img = NoImage
          THEN /\ ext_log' = MissingImageMsg
               /\ lut_store' = lut_store
               /\ ext_state_pts' = ext_state_pts
          ELSE IF Len(ext_state_pts) # 4
          THEN /\ ext_log' = NeedPointsMsg
               /\ lut_store' = lut_store
               /\ ext_state_pts' = ext_state_pts
          ELSE /\ ext_log' = ExtractedMsg
               /\ lut_store' = [exists |-> TRUE,
                                grid |-> Sampled(ext_state_img)]
               /\ ext_state_pts' = ext_state_pts]_vars

\* a call with three points was refused, the earlier LUT file still in place
C15_Witness ==
    /\ ext_log = NeedPointsMsg
    /\ Len(ext_state_pts) = 3
    /\ lut_store = EarlierLut

\* the corrections of the log on cell (r, c), by position in the log
FixesOf(r, c) == {k \in DOMAIN fix_log : fix_log[k].coord = <<r, c>>}

\* C18: every cell of the LUT file holds the colour given to the last
\* correction applied to it since the extraction, or, if there was none,
\* the extracted colour.
C18_FixSetsOnlyItsCell ==
    lut_store.exists =>
        \A r, c \in 0..(DataGridSize - 1) :
            IF FixesOf(r, c) = {}
            THEN lut_store.grid[r + 1][c + 1] = ext_base[r + 1][c + 1]
            ELSE LET last == fix_log[MaxOf(FixesOf(r, c))]
                 IN last.color # NoColor =>
                        lut_store.grid[r + 1][c + 1] = last.color

\* cell (0, 0) was corrected twice and holds the second colour; cell (1, 31)
\* was not
C18_Witness ==
    /\ Len(fix_log) = 2
    /\ fix_log[1] = [coord |-> <<0, 0>>, color |-> <<255, 0, 0>>]
    /\ fix_log[2] = [coord |-> <<0, 0>>, color |-> <<18, 52, 86>>]
    /\ lut_store.grid[1][1] = <<18, 52, 86>>
    /\ lut_store.grid[2][32] = ext_base[2][32]

\* the directed edges a face traverses
Edges(f) == {<<f[1], f[2]>>, <<f[2], f[3]>>, <<f[3], f[1]>>}
\* the number of faces that traverse e
Uses(e) == Cardinality({k \in DOMAIN faces : e \in Edges(faces[k])})
\* every edge is traversed once in each direction
Watertight ==
    \A k \in DOMAIN faces : \A e \in Edges(faces[k]) :
        Uses(e) = 1 /\ Uses(<<e[2], e[1]>>) = 1

OuterWallFaces == SubSeq(faces, 1, 2 * NOuter)
HoleWallFaces == SubSeq(faces, 2 * NOuter + 1, 2 * NOuter + 2 * NHolePts)
\* the outer walls traverse every edge of the bottom outer ring forwards,
\* the hole's walls traverse every edge of the bottom hole ring backwards
WallsOpposite ==
    /\ \A i \in 0..(NOuter - 1) :
          \E k \in DOMAIN OuterWallFaces :
              <<BottomOuterStart + i, BottomOuterStart + ((i + 1) % NOuter)>>
                  \in Edges(OuterWallFaces[k])
    /\ \A i \in 0..(NHolePts - 1) :
          \E k \in DOMAIN HoleWallFaces :
              <<BottomHoleStart + ((i + 1) % NHolePts), BottomHoleStart + i>>
                  \in Edges(HoleWallFaces[k])

\* C19: whatever the stitching chose, every edge of the finished mesh is
\* shared by exactly two faces that traverse it in opposite directions, and
\* the hole's side walls are wound oppositely to the outer side walls.
C19_LoopWatertight ==
    kpc = "done" => (Watertight /\ WallsOpposite)

\* the winding of the side walls alone, which holds
WallsWoundOppositely ==
    kpc \in {"bottom", "top", "done"} => WallsOpposite

\* the iterations of the bottom cap that advanced ring r, cyclically in one
\* unbroken run
OneRun(r) ==
    \E start \in DOMAIN ring_path :
        LET n == Len(ring_path)
            at(k) == ring_path[((start + k - 2) % n) + 1]
            count == Cardinality({k \in DOMAIN ring_path : ring_path[k] = r})
        IN \A k \in 1..n : (at(k) = r) <=> (k <= count)

\* the mesh is watertight exactly when neither ring was advanced in one
\* unbroken run
WatertightUnlessOneRun ==
    kpc = "done" => (Watertight <=> ~(OneRun("o") \/ OneRun("h")))

\* with hole_dia_mm = 0 and the code's ring sizes, the hole ring is
\* advanced 32 times before the outer ring moves
ZeroHoleOneRun ==
    (kpc = "done" /\ hole_radius = 0) =>
        /\ \A k \in 1..NHolePts : ring_path[k] = "h"
        /\ ~Watertight

Abs(v) == IF v < 0 THEN 0 - v ELSE v
\* the tolerance on areas, one square pixel
AreaTolerance == 1000

\* outer area minus hole area, by the pixels of the synthetic shape and by
\* the contour polygons the mesher found
ExpectedByPixels ==
    1000 * (synthetic.n * synthetic.n - synthetic.h * synthetic.h)
ExpectedByContours ==
    LET kept == KeptContours(FindContours(mask_uint8))
    IN IF Len(kept) = 0 THEN 0
       ELSE IF Len(kept) = 1 THEN PlainArea(kept[1])
       ELSE PlainArea(kept[1]) - PlainArea(kept[2])

\* C20: for a mask of one square with one square hole inside it, the area
\* of the merged polygons is the outer area minus the hole area, within the
\* tolerance.
C20_AreaIsOuterMinusHole ==
    mpc = "done" =>
        \/ Abs(merged_area - ExpectedByPixels) <= AreaTolerance
        \/ Abs(merged_area - ExpectedByContours) <= AreaTolerance

\* the cleanup leaves a filled rectangle less at most one rectangle
CleanMaskIsRectLessRect ==
    mpc \in {"contours", "merge", "done"} => RectLessRect(mask_uint8)

\* what the code gives instead: a hole of one or two pixels a side is closed
\* by the cleanup and has no polygon; otherwise the area exceeds the
\* difference of the contour areas by 6 times the difference of the
\* perimeters
MergedAreaExcess ==
    mpc = "done" =>
        IF synthetic.h <= 2
        THEN /\ Len(polygons) = 1
             /\ merged_area = Area(polygons[1])
        ELSE /\ Len(polygons) = 2
             /\ polygons[2].is_hole /\ polygons[2].buf = 6
             /\ merged_area = ExpectedByContours
                   + 6 * (PlainPerimeter(polygons[1])
                            - PlainPerimeter(polygons[2]))

\* the cells at which a maximal horizontal run of the mask begins
RunStarts ==
    {<<yy, xx>> \in (DOMAIN mask) \X (DOMAIN mask[0]) :
        mask[yy][xx] /\ (xx = 0 \/ ~mask[yy][xx - 1])}

\* cell (yy, xx) lies in a returned rectangle that starts in an earlier row
CoveredFromAbove(yy, xx) ==
    \E k \in DOMAIN rectangles :
        InRect(rectangles[k], yy, xx) /\ rectangles[k][2] < yy
\* a true cell that no rectangle from an earlier row covers
Residual(yy, xx) == mask[yy][xx] /\ ~CoveredFromAbove(yy, xx)
\* the cells at which a maximal horizontal run of such cells begins
ResidualRunStarts ==
    {<<yy, xx>> \in (DOMAIN mask) \X (DOMAIN mask[0]) :
        Residual(yy, xx) /\ (xx = 0 \/ ~Residual(yy, xx - 1))}

\* C21 as stated: the merge returns at most as many rectangles as the mask
\* has maximal horizontal runs of true cells.
C21_AtMostOnePerRun ==
    rpc = "done" => Len(rectangles) <= Cardinality(RunStarts)

\* C21: the merge returns exactly one rectangle per maximal horizontal run
\* of the true cells that no rectangle started in an earlier row covers,
\* the rectangle's top row being that run; it never returns more
\* rectangles than the mask has true cells.
C21_OnePerResidualRun ==
    rpc = "done" =>
        /\ Len(rectangles) = Cardinality(ResidualRunStarts)
        /\ \A k \in DOMAIN rectangles :
              LET r == rectangles[k]
              IN /\ <<r[2], r[1]>> \in ResidualRunStarts
                 /\ \A xx \in r[1]..(r[3] - 1) : Residual(r[2], xx)
                 /\ r[3] < MaskW(mask) => ~Residual(r[2], r[3])
        /\ Len(rectangles) <=
              Cardinality({p \in (DOMAIN mask) \X (DOMAIN mask[0]) :
                              mask[p[1]][p[2]]})

\* a rectangle coming down from row 0 cuts the one run of row 1 in two:
\* three rectangles for two runs
C21_Witness ==
    /\ rpc = "done"
    /\ MaskH(mask) = 2 /\ MaskW(mask) = 3
    /\ Cardinality(RunStarts) = 2
    /\ rectangles = << <<1, 0, 2, 2>>, <<0, 1, 1, 2>>, <<2, 1, 3, 2>> >>

\* the mask of layer z as the mesher sees it: dilated in the high-fidelity
\* mesher, plain in the vector mesher
LayerMask(z) == StoredMask(CurrMask(grp_matrix[z], grp_mat_id), grp_dilate)
GroupsHolding(z) ==
    {k \in DOMAIN layer_groups :
        layer_groups[k].start_z <= z /\ z <= layer_groups[k].end_z}

\* C22: the layer groups have pairwise disjoint z-ranges in increasing
\* order; every layer whose (dilated) material mask is non-empty lies in
\* exactly one group, whose mask equals the layer's mask; every layer whose
\* mask is empty lies in no group.
C22_CompressionLossless ==
    gpc = "done" =>
        /\ \A k \in DOMAIN layer_groups :
              /\ layer_groups[k].start_z <= layer_groups[k].end_z
              /\ k > 1 => layer_groups[k - 1].end_z < layer_groups[k].start_z
        /\ \A z \in DOMAIN grp_matrix :
              IF AnyTrue(LayerMask(z))
              THEN /\ Cardinality(GroupsHolding(z)) = 1
                   /\ \A k \in GroupsHolding(z) :
                         layer_groups[k].mask = LayerMask(z)
              ELSE GroupsHolding(z) = {}

\* two different adjacent layers whose dilated masks agree are merged into
\* one group, after a gap of one empty layer
C22_Witness ==
    /\ gpc = "done"
    /\ grp_dilate
    /\ GrpDepth = 3
    /\ ~AnyTrue(CurrMask(grp_matrix[0], grp_mat_id))
    /\ CurrMask(grp_matrix[1], grp_mat_id) # CurrMask(grp_matrix[2], grp_mat_id)
    /\ Len(layer_groups) = 1
    /\ layer_groups[1].start_z = 1 /\ layer_groups[1].end_z = 2

\* the vector mesher splits layers whose masks differ
C22_WitnessPlain ==
    /\ gpc = "done"
    /\ ~grp_dilate
    /\ GrpDepth = 3
    /\ Len(layer_groups) = 2
    /\ layer_groups[1].end_z = 0 /\ layer_groups[2].start_z = 2

\* the entries of the file the filter rejects: colour closer than 60 to
\* (30, 100, 200) and no material 3 in the stack that encodes the index
RejectedEntries ==
    {i \in 0..(NumStacks - 1) :
        /\ Dist2(Flat(lut_grid, i), base_blue) < BlueDist * BlueDist
        /\ \A d \in 1..StackLen : StackOf(i)[d] # BlueMaterial}
\* the position (1-based) of surviving entry i among the survivors
SurvivorPosition(i, rejected) ==
    i + 1 - Cardinality({j \in rejected : j < i})

\* C23: the loader rejects entry i exactly when its colour is within 60 of
\* (30, 100, 200) and encode(i) holds no material 3; the other entries
\* survive in index order, and the stack at every surviving position is the
\* encoding of the original index of the colour at that position.
C23_FilterKeepsPairing ==
    lpc = "loaded" =>
        \A rejected \in {RejectedEntries} :
            /\ Len(lut_rgb) = NumStacks - Cardinality(rejected)
            /\ Len(ref_stacks) = Len(lut_rgb)
            /\ \A i \in (0..(NumStacks - 1)) \ rejected :
                  /\ lut_rgb[SurvivorPosition(i, rejected)] = Flat(lut_grid, i)
                  /\ ref_stacks[SurvivorPosition(i, rejected)] = StackOf(i)

\* entry 0 (blue, stack 00000) is rejected, entry 3 (blue, stack 00003)
\* survives at position 3, and every later entry has moved up by one
C23_Witness ==
    /\ lpc = "loaded"
    /\ Flat(lut_grid, 0) = base_blue /\ Flat(lut_grid, 3) = base_blue
    /\ Flat(lut_grid, 1) = White
    /\ RejectedEntries = {0}
    /\ Len(lut_rgb) = NumStacks - 1
    /\ lut_rgb[3] = base_blue /\ ref_stacks[3] = StackOf(3)
    /\ ref_stacks[1] = StackOf(1)

\* pts is new_pts without its last element
ExtendsByOne(pts, new_pts) ==
    /\ Len(new_pts) = Len(pts) + 1
    /\ \A k \in DOMAIN pts : new_pts[k] = pts[k]
    /\ new_pts[Len(new_pts)] \in ClickPoints

\* C24: after any sequence of upload, colour-mode change, rotate, click and
\* reset events between 0 and 4 corner points are held; a click appends
\* exactly one point, after the points already held, when fewer than 4 are
\* held and changes nothing when 4 are held; no other event adds a point;
\* and a LUT is written only from a state with exactly 4 points.
C24_CornerCollection ==
    /\ [](Len(ext_state_pts) \in 0..4)
    /\ [][/\ on_extractor_click =>
                IF Len(ext_state_pts) < 4
                THEN ExtendsByOne(ext_state_pts, ext_state_pts')
                ELSE ext_state_pts' = ext_state_pts
          /\ ext_state_pts' # ext_state_pts =>
                \/ ext_state_pts' = <<>>
                \/ /\ Len(ext_state_pts) < 4
                   /\ ExtendsByOne(ext_state_pts, ext_state_pts')
          /\ lut_store' # lut_store => Len(ext_state_pts) = 4]_vars

\* four points held in click order, and the LUT written from them
C24_Witness ==
    /\ ext_state_pts = << <<100, 120>>, <<900, 130>>, <<900, 130>>, <<100, 120>> >>
    /\ ext_log = ExtractedMsg
    /\ lut_store.exists /\ lut_store.grid = Sampled(ext_state_img)

MatrixLayers == Cardinality(DOMAIN voxel_matrix)
\* the layers between the colour block(s), once the matrix is assembled (a
\* conversion that stopped at the LUT file has none)
SpacerRange ==
    IF IsDoubleSided(structure_mode)
    THEN ColorLayers..(MatrixLayers - ColorLayers - 1)
    ELSE ColorLayers..(MatrixLayers - 1)

\* C25: double-sided, the matrix has 5 + spacer_layers + 5 layers with
\* spacer_layers >= 1, layer z equals layer total - 1 - z for every z, and
\* the top colour block is the bottom colour block in reverse layer order;
\* single-sided it has 5 + spacer_layers layers; every spacer layer holds
\* material 0 at solid pixels and -1 at transparent pixels.
C25_MirroredMatrix ==
    (MatrixBuilt /\ voxel_matrix # <<>>) =>
        /\ Cardinality(SpacerRange) >= 1
        /\ Cardinality(SpacerRange) = SpacerLayers(spacer_thick)
        /\ \A z \in 0..(ColorLayers - 1) : \A p \in DOMAIN pixel_stacks :
              voxel_matrix[z][p] = pixel_stacks[p][z + 1]
        /\ IsDoubleSided(structure_mode) =>
              /\ MatrixLayers = ColorLayers + SpacerLayers(spacer_thick) + ColorLayers
              /\ \A z \in DOMAIN voxel_matrix :
                    voxel_matrix[z] = voxel_matrix[MatrixLayers - 1 - z]
              /\ \A k \in 0..(ColorLayers - 1) :
                    voxel_matrix[MatrixLayers - ColorLayers + k] =
                        voxel_matrix[ColorLayers - 1 - k]
        /\ ~IsDoubleSided(structure_mode) =>
              MatrixLayers = ColorLayers + SpacerLayers(spacer_thick)
        /\ \A z \in SpacerRange : \A p \in DOMAIN mask_transparent :
              voxel_matrix[z][p] = IF mask_transparent[p] THEN Sentinel ELSE 0

\* a double-sided matrix of 5 + 2 + 5 layers over a transparent pixel and a
\* solid pixel whose stack is not its own reverse
C25_Witness ==
    /\ MatrixBuilt
    /\ IsDoubleSided(structure_mode)
    /\ MatrixLayers = 12
    /\ mask_transparent[1] /\ ~mask_transparent[2]
    /\ pixel_stacks[2] = <<2, 2, 2, 2, 3>>
    /\ voxel_matrix[0][2] = 2 /\ voxel_matrix[11][2] = 2
    /\ voxel_matrix[4][2] = 3 /\ voxel_matrix[7][2] = 3
    /\ voxel_matrix[5][2] = 0 /\ voxel_matrix[5][1] = Sentinel

\* how many iterations advanced ring r
Advances(r) == Cardinality({k \in DOMAIN ring_trace : ring_trace[k] = r})

\* C26: whatever the ring sizes n_o, n_h >= 1 and the outcomes of the
\* comparisons, every step advances one ring and appends one triangle, no
\* ring is advanced past its size, and after the n_o + n_h steps the outer
\* ring has advanced exactly n_o times and the hole ring exactly n_h times,
\* which puts both back on their first points.
C26_RingsConsumed ==
    /\ qpc \in {"loop", "done"} =>
          /\ Len(ring_faces) = ring_step
          /\ Len(ring_trace) = ring_step
          /\ ring_oi = Advances("o") /\ ring_hi = Advances("h")
          /\ ring_oi + ring_hi = ring_step
          /\ ring_oi <= n_o /\ ring_hi <= n_h
    /\ qpc = "done" =>
          /\ ring_step = n_o + n_h
          /\ Advances("o") = n_o /\ Advances("h") = n_h
          /\ OuterPoint(ring_oi) = OuterPoint(0)
          /\ HolePoint(ring_hi) = HolePoint(0)
          /\ \E v \in {<<"o", 0>>, <<"h", 0>>} :
                \E c \in 1..3 : ring_faces[ring_step][c] = v

\* rings of 3 and 2 points stitched with the hole ring consumed first, so
\* that the last three steps were forced onto the outer ring
C26_Witness ==
    /\ qpc = "done"
    /\ n_o = 3 /\ n_h = 2
    /\ ring_trace = <<"h", "h", "o", "o", "o">>
    /\ Len(ring_faces) = 5

\* rings of one point each
C26_WitnessSinglePoints ==
    /\ qpc = "done"
    /\ n_o = 1 /\ n_h = 1
    /\ ring_oi = 1 /\ ring_hi = 1

\* the mode string asks for the woodblock / the vector mesher
AsksWoodblock == modeling_mode \cap {"woodblock", "zh:woodblock"} # {}
AsksVector == modeling_mode \cap {"vector", "zh:vector"} # {}

\* C27: every modelling-mode string resolves, without failing, to exactly
\* one mesher: woodblock when asked for and its library is present, vector
\* when woodblock is asked for and the library is missing or when vector is
\* asked for, and the slab mesher for every other string; the mesher that
\* runs is the one selected.  The factory get_mesher answers every string
\* too, with its default for a string it does not know.
C27_ModeResolves ==
    /\ mdpc \in {"normalize", "select", "mesh"} =>
          ENABLED (NormalizeMode \/ SelectCreator \/ RunCreator)
    /\ mdpc = "done" =>
          /\ mesh_creator \in {"slab", "vector", "woodblock"}
          /\ ran_mesher = mesh_creator
          /\ mesh_creator = "woodblock" <=> (AsksWoodblock /\ woodblock_available)
          /\ mesh_creator = "vector" <=>
                \/ AsksWoodblock /\ ~woodblock_available
                \/ ~AsksWoodblock /\ AsksVector
          /\ mesh_creator = "slab" <=> (~AsksWoodblock /\ ~AsksVector)
    /\ (mdpc # "idle" /\ factory_mesher # "") =>
          /\ factory_mesher \in {"HighFidelityMesher", "VoxelMesher"}
          /\ modeling_mode \cap (HighFidelityChoice \cup PixelArtChoice) = {}
                => factory_mesher = "HighFidelityMesher"

\* a woodblock request without the library, resolved to the vector mesher
C27_Witness ==
    /\ mdpc = "done"
    /\ modeling_mode = {"woodblock"}
    /\ ~woodblock_available
    /\ mesh_creator = "vector" /\ ran_mesher = "vector"
    /\ factory_mesher = "HighFidelityMesher"

\* the default choice of the radio, which names no mesher of the converter
C27_WitnessUnknown ==
    /\ mdpc = "done"
    /\ modeling_mode = HighFidelityChoice
    /\ mesh_creator = "slab"

PreviewDone == ppc \in {"message", "returned"}
TotalPixels == prev_width * prev_height

\* C28: above 2,000,000 pixels no preview mesh is produced; above 500,000
\* the preview is built over the grid shrunk by an integer factor between 2
\* and 16 and holds at most 500,000 pixels; otherwise it is built at full
\* resolution; and in every case the package was exported over the full
\* grid.  (An image without a solid pixel has no preview at any size.)
C28_PreviewPolicy ==
    PreviewDone =>
        /\ exported = [width |-> prev_width, height |-> prev_height]
        /\ TotalPixels > DisableThreshold => preview_mesh = NoPreview
        /\ preview_mesh # NoPreview =>
              IF TotalPixels > SimplifyThreshold
              THEN /\ preview_mesh.factor \in MinScale..MaxScale
                   /\ preview_mesh.width = prev_width \div preview_mesh.factor
                   /\ preview_mesh.height = prev_height \div preview_mesh.factor
                   /\ preview_mesh.width * preview_mesh.height
                         <= SimplifyThreshold
              ELSE /\ preview_mesh.factor = 1
                   /\ preview_mesh.width = prev_width
                   /\ preview_mesh.height = prev_height
        /\ (TotalPixels <= DisableThreshold /\ prev_solid = "all") =>
              preview_mesh # NoPreview

\* 1000 x 2000 pixels, the largest previewed size, halved to exactly 500,000
C28_Witness ==
    /\ ppc = "returned"
    /\ prev_width = 1000 /\ prev_height = 2000
    /\ preview_mesh = [width |-> 500, height |-> 1000, factor |-> 2]
    /\ preview_note = "simplified"
    /\ exported = [width |-> 1000, height |-> 2000]

\* one pixel more in width: exported, not previewed
C28_WitnessDisabled ==
    /\ ppc = "returned"
    /\ prev_width = 1001 /\ prev_height = 2000
    /\ preview_mesh = NoPreview /\ preview_note = "disabled"
    /\ exported = [width |-> 1001, height |-> 2000]

AttachDone == apc = "done" /\ attach_info # NoInfo
AttachTargetH == Cardinality(DOMAIN mask_solid)

\* C29: in every modelling mode the loop is placed at the attach pixel in
\* the model's own millimetre coordinates: attach_x_mm is attach_col times,
\* and attach_y_mm is (target_h - 1 - top_row) times, the pixel-to-mm scale
\* applied to the model meshes of the conversion.
C29_AttachInModelScale ==
    AttachDone =>
        /\ attach_info.attach_x_mm = attach_col * transform_xy
        /\ attach_info.attach_y_mm = (AttachTargetH - 1 - top_row) * transform_xy
        /\ loop_origin = <<attach_info.attach_x_mm, attach_info.attach_y_mm>>

\* what holds instead: the attach point is scaled by the nozzle width in
\* every mode, which is the scale of the meshes in the low-resolution mode
\* only; in the high-resolution modes the meshes lie at 0.1 mm per pixel
AttachInNozzleScale ==
    AttachDone =>
        /\ attach_info.attach_x_mm = attach_col * NozzleWidth
        /\ attach_info.attach_y_mm = (AttachTargetH - 1 - top_row) * NozzleWidth
        /\ transform_xy = IF high_res THEN 10 ELSE NozzleWidth
        /\ attach_col \in 0..(AttachCols - 1)
        /\ top_row \in 0..(AttachRows - 1)
        /\ top_row \in SolidRowsOf(mask_solid)

\* the low-resolution mode places the loop in the scale of the meshes
AttachInModelScaleLowRes == (AttachDone /\ ~high_res) => C29_AttachInModelScale

\* a high-resolution conversion whose attach pixel is column 2 of row 0: the
\* pixel lies at x = 0.2 mm in the model, the loop at x = 0.84 mm
AttachOffModel ==
    /\ AttachDone /\ high_res
    /\ attach_col = 2 /\ top_row = 0
    /\ transform_xy = 10
    /\ loop_origin = <<84, 42>>

\* C30: a call of manual_fix_cell with a colour string that does not parse
\* into three channel values (such as rgb(...) with fewer than three
\* components), with no selected cell or with no LUT file answers with an
\* error and leaves the LUT file as it was: no such string is ever among the
\* corrections applied to the file, and a correction is reported only with
\* a cell selected and a file present.
C30_BadFixRefused ==
    /\ \A k \in DOMAIN fix_log : fix_log[k].color # NoColor
    /\ ext_log = FixedMsg => (lut_store.exists /\ ext_curr_coord # NoCoord)
    /\ ~lut_store.exists => fix_log = <<>>

\* the calls without a cell or without a file, and the strings on which the
\* parse raises, are refused
FixRefusedWithoutCellOrFile ==
    [][(manual_fix_cell /\ (ext_curr_coord = NoCoord \/ ~lut_store.exists)) =>
          (ext_log' = FixErrorMsg /\ lut_store' = lut_store)]_vars

\* what the code does with rgb(...) of fewer than three components: the
\* cell is set to black and the correction reported as done
ShortRgbStoresBlack ==
    \A k \in DOMAIN fix_log :
        (fix_log[k].color = NoColor
            /\ k = MaxOf(FixesOf(fix_log[k].coord[1], fix_log[k].coord[2]))) =>
                lut_store.grid[fix_log[k].coord[1] + 1][fix_log[k].coord[2] + 1]
                    = <<0, 0, 0>>

\* cell (0, 0) of the extracted LUT overwritten with black by a correction
\* whose string held two components
ShortRgbAccepted ==
    /\ fix_log = <<[coord |-> <<0, 0>>, color |-> NoColor]>>
    /\ ext_log = FixedMsg
    /\ lut_store.grid[1][1] = <<0, 0, 0>>
    /\ ext_base[1][1] # <<0, 0, 0>>

====
